---- MODULE Spec2Model ----
(***************************************************************************)
(* Model of the lead pipeline of onflow-attio:                             *)
(*   bot.py              LeadBot.handle_lead_mention (one message)         *)
(*   gemini_processor.py call_gemini_api, parse_gemini_response,           *)
(*                       LeadData, process_lead_message                    *)
(*   attio_client.py     AttioClient.create_record and its helpers         *)
(*                                                                         *)
(* Texts the code looks inside (error texts, the answers of the website    *)
(* search, CRM error messages) are strings, read as sequences of           *)
(* characters with Len, SubSeq, Head, Tail and \o.  A model answer of the  *)
(* extraction is a sequence of JSON tokens.  Python's None is the value    *)
(* None below.                                                             *)
(***************************************************************************)
EXTENDS Integers, Sequences, FiniteSets, TLC

None == "<None>"

\* Python truthiness of an optional string: None and "" are falsy.
Truthy(v) == v # None /\ v # ""

\* dict.get(k) with the default None.
Get(d, k) == IF k \in DOMAIN d THEN d[k] ELSE None

\* d[k] = v on a dict.
Put(d, k, v) == [x \in DOMAIN d \cup {k} |-> IF x = k THEN v ELSE d[x]]

EmptyDict == [x \in {} |-> None]

(***************************************************************************)
(* Character-level text operations (str.lower, the "in" operator).         *)
(***************************************************************************)
LowerChar(c) ==
    CASE c = "A" -> "a" [] c = "B" -> "b" [] c = "C" -> "c" [] c = "D" -> "d"
      [] c = "E" -> "e" [] c = "F" -> "f" [] c = "G" -> "g" [] c = "H" -> "h"
      [] c = "I" -> "i" [] c = "J" -> "j" [] c = "K" -> "k" [] c = "L" -> "l"
      [] c = "M" -> "m" [] c = "N" -> "n" [] c = "O" -> "o" [] c = "P" -> "p"
      [] c = "Q" -> "q" [] c = "R" -> "r" [] c = "S" -> "s" [] c = "T" -> "t"
      [] c = "U" -> "u" [] c = "V" -> "v" [] c = "W" -> "w" [] c = "X" -> "x"
      [] c = "Y" -> "y" [] c = "Z" -> "z" [] OTHER -> c

RECURSIVE lower(_)
lower(s) == IF Len(s) = 0 THEN "" ELSE LowerChar(Head(s)) \o lower(Tail(s))

\* sub in s
Contains(s, sub) ==
    \E i \in 1..(Len(s) - Len(sub) + 1) : SubSeq(s, i, i + Len(sub) - 1) = sub

(***************************************************************************)
(* The language-model service: what one generate_content call can do.      *)
(* An outcome is a text, an empty text, or an exception with a message.    *)
(***************************************************************************)
QuotaErrorTexts ==
    { "Quota exceeded for model", "RATE LIMIT reached", "Resource Exhausted",
      "HTTP 429", "Too Many Requests", "Token Limit Exceeded" }

OtherErrorTexts == { "Internal error", "Read timed out", "ratelimit off" }

ErrorTexts == QuotaErrorTexts \cup OtherErrorTexts

(***************************************************************************)
(* gemini_processor._is_quota_error                                        *)
(***************************************************************************)
quota_indicators ==
    { "quota", "rate limit", "resource exhausted", "429", "too many requests",
      "limit exceeded" }

\* variant: the indicators are looked for in str(error) as it is
is_quota_error_nolower(error) ==
    \E indicator \in quota_indicators : Contains(error, indicator)

is_quota_error(error) ==
    LET error_str == lower(error)
    IN  \E indicator \in quota_indicators : Contains(error_str, indicator)

(***************************************************************************)
(* JSON texts.  A model answer of the extraction is a sequence of tokens:  *)
(* the JSON punctuation "{" "}" "[" "]" ",", white space " ", "x" for any  *)
(* character that is no JSON syntax (prose around the object), one token   *)
(* per member  "key": "string"  of an object, and "k:" for the start       *)
(* "extra":  of a member whose value is an object or an array.             *)
(***************************************************************************)
MemberTokens ==
    { "ot=person", "ot=company", "ot=deal", "ot=user", "ot=lead",
      "name=Ann", "name=null", "company=Acme", "job_title=VP",
      "email=ann@acme.io", "notes=met today",
      "deal_value=50000", "deal_stage=prospect" }

MemberKey(tok) ==
    CASE tok \in {"ot=person", "ot=company", "ot=deal", "ot=user", "ot=lead"} -> "object_type"
      [] tok \in {"name=Ann", "name=null"} -> "name"
      [] tok = "company=Acme"        -> "company"
      [] tok = "job_title=VP"        -> "job_title"
      [] tok = "email=ann@acme.io"   -> "email"
      [] tok = "notes=met today"     -> "notes"
      [] tok = "deal_value=50000"    -> "deal_value"
      [] tok = "deal_stage=prospect" -> "deal_stage"

MemberVal(tok) ==
    CASE tok = "ot=person"  -> "person"
      [] tok = "ot=company" -> "company"
      [] tok = "ot=deal"    -> "deal"
      [] tok = "ot=user"    -> "user"
      [] tok = "ot=lead"    -> "lead"
      [] tok = "name=Ann"   -> "Ann"
      [] tok = "name=null"  -> None
      [] tok = "company=Acme"        -> "Acme"
      [] tok = "job_title=VP"        -> "VP"
      [] tok = "email=ann@acme.io"   -> "ann@acme.io"
      [] tok = "notes=met today"     -> "met today"
      [] tok = "deal_value=50000"    -> "50000"
      [] tok = "deal_stage=prospect" -> "prospect"

\* Python values json.loads returns: a dict or a list (tagged, since the
\* empty dict and the empty list are the same TLA+ value).
PyDict(f) == [t |-> "dict", v |-> f]
PyList(s) == [t |-> "list", v |-> s]

JSONDecodeError == [ok |-> FALSE, val |-> None, next |-> 0]

RECURSIVE ParseValue(_, _), ParseMembers(_, _, _), ParseElems(_, _, _)

\* members of an object from position i on, up to and including its "}"
ParseMembers(t, i, acc) ==
    IF i > Len(t) THEN JSONDecodeError
    ELSE LET r == IF t[i] \in MemberTokens
                  THEN [ok |-> TRUE, key |-> MemberKey(t[i]), val |-> MemberVal(t[i]),
                        next |-> i + 1]
                  ELSE IF t[i] = "k:"
                  THEN LET v == ParseValue(t, i + 1)
                       IN  [ok |-> v.ok, key |-> "extra", val |-> v.val, next |-> v.next]
                  ELSE [ok |-> FALSE, key |-> "", val |-> None, next |-> 0]
         IN  IF ~r.ok \/ r.next > Len(t) THEN JSONDecodeError
             ELSE LET acc2 == Put(acc, r.key, r.val)
                  IN  IF t[r.next] = "}"
                      THEN [ok |-> TRUE, val |-> PyDict(acc2), next |-> r.next + 1]
                      ELSE IF t[r.next] = ","
                      THEN ParseMembers(t, r.next + 1, acc2)
                      ELSE JSONDecodeError

\* elements of an array from position i on, up to and including its "]"
ParseElems(t, i, acc) ==
    LET r == ParseValue(t, i)
    IN  IF ~r.ok \/ r.next > Len(t) THEN JSONDecodeError
        ELSE IF t[r.next] = "]"
             THEN [ok |-> TRUE, val |-> PyList(Append(acc, r.val)), next |-> r.next + 1]
        ELSE IF t[r.next] = "," THEN ParseElems(t, r.next + 1, Append(acc, r.val))
        ELSE JSONDecodeError

ParseValue(t, i) ==
    IF i > Len(t) THEN JSONDecodeError
    ELSE IF t[i] = "{"
         THEN IF i + 1 <= Len(t) /\ t[i + 1] = "}"
              THEN [ok |-> TRUE, val |-> PyDict(EmptyDict), next |-> i + 2]
              ELSE ParseMembers(t, i + 1, EmptyDict)
    ELSE IF t[i] = "["
         THEN IF i + 1 <= Len(t) /\ t[i + 1] = "]"
              THEN [ok |-> TRUE, val |-> PyList(<<>>), next |-> i + 2]
              ELSE ParseElems(t, i + 1, <<>>)
    ELSE JSONDecodeError

\* json.loads: one JSON value, white space allowed around every token,
\* nothing else before or after it.
json_loads(s) ==
    LET t == SelectSeq(s, LAMBDA c : c # " ")
        r == ParseValue(t, 1)
    IN  IF r.ok /\ r.next = Len(t) + 1 THEN r ELSE JSONDecodeError

\* variant: the search is non-greedy, to the first "}" after the first "{"
re_search_braces_lazy(s) ==
    LET opens  == {i \in 1..Len(s) : s[i] = "{"}
        closes == {j \in 1..Len(s) : s[j] = "}"}
        starts == {i \in opens : \E j \in closes : j > i}
    IN  IF starts = {} THEN [found |-> FALSE, group |-> <<>>]
        ELSE LET i == CHOOSE x \in starts : \A y \in starts : x <= y
                 after == {j \in closes : j > i}
                 j == CHOOSE x \in after : \A y \in after : x <= y
             IN  [found |-> TRUE, group |-> SubSeq(s, i, j)]

\* re.search(r'\{.*\}', s, re.DOTALL): from the first "{" that has a "}"
\* after it to the last "}" (greedy).
re_search_braces(s) ==
    LET opens  == {i \in 1..Len(s) : s[i] = "{"}
        closes == {j \in 1..Len(s) : s[j] = "}"}
        starts == {i \in opens : \E j \in closes : j > i}
    IN  IF starts = {} THEN [found |-> FALSE, group |-> <<>>]
        ELSE LET i == CHOOSE x \in starts : \A y \in starts : x <= y
                 j == CHOOSE x \in closes : \A y \in closes : y <= x
             IN  [found |-> TRUE, group |-> SubSeq(s, i, j)]

(***************************************************************************)
(* gemini_processor.parse_gemini_response: the parsed data, or the         *)
(* GeminiProcessingError "Could not parse JSON from Gemini response".      *)
(***************************************************************************)
parse_gemini_response(response_text) ==
    LET direct == json_loads(response_text)
    IN  IF direct.ok THEN [ok |-> TRUE, data |-> direct.val]
        ELSE LET json_match == re_search_braces(response_text)
                 inner == json_loads(json_match.group)
             IN  IF json_match.found /\ inner.ok
                 THEN [ok |-> TRUE, data |-> inner.val]
                 ELSE [ok |-> FALSE, data |-> None]

(***************************************************************************)
(* gemini_processor.LeadData: object_type and name are required strings,   *)
(* the other fields default to None; keys that are no field are ignored.   *)
(***************************************************************************)
LeadFields ==
    { "object_type", "name", "email", "phone", "company", "job_title",
      "location", "linkedin_url", "deal_value", "deal_stage", "notes" }

RequiredFields == {"object_type", "name"}

LeadDataValid(d) == \A f \in RequiredFields : f \in DOMAIN d /\ d[f] # None

LeadData(d) == [f \in LeadFields |-> Get(d, f)]

(***************************************************************************)
(* config.Config                                                           *)
(***************************************************************************)
GOOGLE_MODEL == "gemini-2.5-flash"
GOOGLE_FALLBACK_MODEL == "gemini-2.5-flash-lite"

(***************************************************************************)
(* gemini_processor.GeminiProcessingError                                  *)
(***************************************************************************)
GeminiProcessingError(msg) == [type |-> "GeminiProcessingError", msg |-> msg]

(***************************************************************************)
(* Model answers of the extraction call.                                   *)
(***************************************************************************)
ExtractText(id) ==
    CASE id = "T_person_co" -> <<"{", "ot=person", ",", "name=Ann", ",", "company=Acme", ",", "job_title=VP", "}">>
      [] id = "T_person"    -> <<"{", "ot=person", ",", "name=Ann", ",", "notes=met today", "}">>
      [] id = "T_company"   -> <<"{", "ot=company", ",", "name=Ann", ",", "email=ann@acme.io", "}">>
      [] id = "T_deal"      -> <<"{", "ot=deal", ",", "name=Ann", ",", "company=Acme", ",", "deal_value=50000", ",", "deal_stage=prospect", "}">>
      [] id = "T_user"      -> <<" ", "{", "ot=user", ",", " ", "name=Ann", "}", " ">>
      [] id = "T_badkind"   -> <<"{", "ot=lead", ",", "name=Ann", ",", "company=Acme", "}">>
      [] id = "T_noname"    -> <<"{", "ot=person", "}">>
      [] id = "T_nokind"    -> <<"{", "name=Ann", "}">>
      [] id = "T_nullname"  -> <<"{", "ot=person", ",", "name=null", "}">>
      [] id = "T_list"      -> <<"[", "{", "ot=person", ",", "name=Ann", "}", "]">>
      [] id = "T_prose"     -> <<"x", "x", " ", "x">>
      [] id = "T_fenced"    -> <<"x", "x", " ", "{", "ot=person", ",", "name=Ann", ",", "k:", "{", "}", "}", " ", "x">>
      [] id = "T_braces"    -> <<"x", "{", "x", "}", " ", "{", "ot=person", ",", "name=Ann", "}">>

ExtractTextIds ==
    { "T_person_co", "T_person", "T_company", "T_deal", "T_user", "T_badkind",
      "T_noname", "T_nokind", "T_nullname", "T_list", "T_prose", "T_fenced",
      "T_braces" }

\* what one generate_content call (and the read of response.text) can do
\* (id: the answer's name, or the exception's message)
GenOutcomes(textIds) ==
    [kind : {"text"}, id : textIds]
        \cup {[kind |-> "empty", id |-> ""]}
        \cup [kind : {"error"}, id : ErrorTexts]

\* call_gemini_api: the exception its try block ends with when the call gives no text
ExceptionInTry(o) ==
    IF o.kind = "empty" THEN "Empty response from Gemini API" ELSE o.id

\* variant: a parsed value that is no dict fails with an unwrapped TypeError
process_response_unwrapped(response_text) ==
    LET parsed == parse_gemini_response(response_text)
    IN  IF ~parsed.ok
        THEN [ok |-> FALSE, lead |-> None,
              error |-> GeminiProcessingError("Processing failed: " \o "Could not parse JSON from Gemini response")]
        ELSE IF parsed.data.t # "dict"
        THEN [ok |-> FALSE, lead |-> None,
              error |-> [type |-> "TypeError", msg |-> "<TypeError>"]]
        ELSE IF ~LeadDataValid(parsed.data.v)
        THEN [ok |-> FALSE, lead |-> None,
              error |-> GeminiProcessingError("Invalid lead data format: " \o "<ValidationError>")]
        ELSE [ok |-> TRUE, lead |-> LeadData(parsed.data.v), error |-> None]

(***************************************************************************)
(* gemini_processor.process_lead_message, from the text call_gemini_api    *)
(* returned: the LeadData, or the GeminiProcessingError it raises.         *)
(***************************************************************************)
process_response(response_text) ==
    LET parsed == parse_gemini_response(response_text)
    IN  IF ~parsed.ok
        THEN [ok |-> FALSE, lead |-> None,
              error |-> GeminiProcessingError("Processing failed: " \o "Could not parse JSON from Gemini response")]
        ELSE IF parsed.data.t # "dict"
        THEN [ok |-> FALSE, lead |-> None,
              error |-> GeminiProcessingError("Processing failed: " \o "<TypeError>")]
        ELSE IF ~LeadDataValid(parsed.data.v)
        THEN [ok |-> FALSE, lead |-> None,
              error |-> GeminiProcessingError("Invalid lead data format: " \o "<ValidationError>")]
        ELSE [ok |-> TRUE, lead |-> LeadData(parsed.data.v), error |-> None]

\* process_lead_message when call_gemini_api raised
process_failure(gateway_msg) ==
    [ok |-> FALSE, lead |-> None,
     error |-> GeminiProcessingError("Processing failed: " \o gateway_msg)]

(***************************************************************************)
(* String helpers used by attio_client.py: str.strip, str.replace(old, ''),*)
(* str.split, str.title, "\n".join.                                        *)
(***************************************************************************)
Whitespace == {" ", "\t", "\n", "\r"}

RECURSIVE lstrip(_, _), rstrip(_, _), remove(_, _), join(_)

lstrip(s, cs) == IF Len(s) > 0 /\ Head(s) \in cs THEN lstrip(Tail(s), cs) ELSE s

rstrip(s, cs) ==
    IF Len(s) > 0 /\ SubSeq(s, Len(s), Len(s)) \in cs
    THEN rstrip(SubSeq(s, 1, Len(s) - 1), cs)
    ELSE s

strip(s, cs) == rstrip(lstrip(s, cs), cs)

\* s.replace(old, ''): every occurrence, left to right, without overlap
remove(s, old) ==
    IF Len(s) < Len(old) THEN s
    ELSE IF SubSeq(s, 1, Len(old)) = old
         THEN remove(SubSeq(s, Len(old) + 1, Len(s)), old)
         ELSE Head(s) \o remove(Tail(s), old)

\* "\n".join(parts)
join(parts) ==
    IF Len(parts) = 0 THEN ""
    ELSE IF Len(parts) = 1 THEN parts[1]
    ELSE parts[1] \o "\n" \o join(Tail(parts))

\* the first position >= from of a character of cs in s, or 0
FindChar(s, cs, from) ==
    LET hits == {k \in from..Len(s) : SubSeq(s, k, k) \in cs}
    IN  IF hits = {} THEN 0 ELSE CHOOSE k \in hits : \A j \in hits : k <= j

\* s.split('@')[1], for an s that contains '@'
split_at_1(s) ==
    LET a == FindChar(s, {"@"}, 1)
        b == FindChar(s, {"@"}, a + 1)
    IN  SubSeq(s, a + 1, IF b = 0 THEN Len(s) ELSE b - 1)

UpperChar(c) ==
    CASE c = "a" -> "A" [] c = "b" -> "B" [] c = "c" -> "C" [] c = "d" -> "D"
      [] c = "e" -> "E" [] c = "f" -> "F" [] c = "g" -> "G" [] c = "h" -> "H"
      [] c = "i" -> "I" [] c = "j" -> "J" [] c = "k" -> "K" [] c = "l" -> "L"
      [] c = "m" -> "M" [] c = "n" -> "N" [] c = "o" -> "O" [] c = "p" -> "P"
      [] c = "q" -> "Q" [] c = "r" -> "R" [] c = "s" -> "S" [] c = "t" -> "T"
      [] c = "u" -> "U" [] c = "v" -> "V" [] c = "w" -> "W" [] c = "x" -> "X"
      [] c = "y" -> "Y" [] c = "z" -> "Z" [] OTHER -> c

IsLetter(c) == LowerChar(c) # c \/ UpperChar(c) # c

RECURSIVE title_from(_, _), replace_char(_, _, _)

\* str.title: a letter is upper-cased after a non-letter, lower-cased after a letter
title_from(s, after_letter) ==
    IF Len(s) = 0 THEN ""
    ELSE (IF after_letter THEN LowerChar(Head(s)) ELSE UpperChar(Head(s)))
             \o title_from(Tail(s), IsLetter(Head(s)))

title(s) == title_from(s, FALSE)

\* s.replace(old, new) for single characters
replace_char(s, old, new) ==
    IF Len(s) = 0 THEN ""
    ELSE (IF Head(s) = old THEN new ELSE Head(s)) \o replace_char(Tail(s), old, new)

\* str.capitalize
capitalize(s) == IF Len(s) = 0 THEN "" ELSE UpperChar(Head(s)) \o lower(Tail(s))

(***************************************************************************)
(* AttioClient._search_company_website: what it makes of the model's text. *)
(***************************************************************************)
clean_website(text) ==
    LET website0 == lower(strip(text, Whitespace))
        website1 == remove(remove(website0, "https://"), "http://")
        website2 == remove(website1, "www.")
    IN  strip(website2, {"/"})

\* the value returned when generate_content gave response_text
search_result(response_text) ==
    IF Len(response_text) > 0
    THEN LET website == clean_website(response_text)
         IN  IF website # "none" /\ Contains(website, ".") /\ ~Contains(website, " ")
             THEN website
             ELSE None
    ELSE None

EnrichTexts ==
    { "stripe.com", " https://www.Acme.io/\n", "NONE", "acme inc", "acme.io\nstripe.com" }

(***************************************************************************)
(* AttioClient.create_record: the search for the missing attribute's slug, *)
(* re.search of the pattern                                                *)
(*   Cannot find attribute with slug/ID [Q](G+)[C]                         *)
(* where Q is one of the characters " ' U+201C, C one of " ' U+201D and G  *)
(* any character not in C.  U+201C and U+201D are written < and > here.    *)
(***************************************************************************)
LDQUO == "<"
RDQUO == ">"
OpenQuotes == {"\"", "'", LDQUO}
CloseQuotes == {"\"", "'", RDQUO}
MissingPrefix == "Cannot find attribute with slug/ID "

\* the match that starts at position i, if there is one
MatchMissingAt(msg, i) ==
    LET q == i + Len(MissingPrefix)        \* the opening quote
        c == FindChar(msg, CloseQuotes, q + 1)  \* the end of the group
    IN  IF /\ q <= Len(msg)
           /\ SubSeq(msg, i, q - 1) = MissingPrefix
           /\ SubSeq(msg, q, q) \in OpenQuotes
           /\ c > q + 1
        THEN [found |-> TRUE, group |-> SubSeq(msg, q + 1, c - 1)]
        ELSE [found |-> FALSE, group |-> ""]

re_search_missing(msg) ==
    LET starts == {i \in 1..Len(msg) : MatchMissingAt(msg, i).found}
    IN  IF starts = {} THEN [found |-> FALSE, group |-> ""]
        ELSE MatchMissingAt(msg, CHOOSE i \in starts : \A j \in starts : i <= j)

(***************************************************************************)
(* AttioClient._create_attribute: the payload of the attribute-create call *)
(***************************************************************************)
attribute_config ==
    [ linkedin_url |-> [title |-> "LinkedIn URL", type |-> "text", is_multiselect |-> FALSE],
      job_title    |-> [title |-> "Job Title", type |-> "text", is_multiselect |-> FALSE],
      location     |-> [title |-> "Location", type |-> "text", is_multiselect |-> FALSE],
      description  |-> [title |-> "Description", type |-> "text", is_multiselect |-> FALSE],
      companies    |-> [title |-> "Companies", type |-> "reference", is_multiselect |-> TRUE,
                        reference_object |-> "companies"] ]

\* variant: the default title is made with str.capitalize, not str.title
attribute_payload_capitalize(attribute_slug) ==
    LET config == IF attribute_slug \in DOMAIN attribute_config
                  THEN attribute_config[attribute_slug]
                  ELSE [title |-> capitalize(replace_char(attribute_slug, "_", " ")),
                        type |-> "text", is_multiselect |-> FALSE]
    IN  [data |->
          [title |-> config.title,
           api_slug |-> attribute_slug,
           description |-> "Auto-created attribute for " \o config.title,
           type |-> config.type,
           is_multiselect |-> config.is_multiselect,
           is_required |-> FALSE,
           is_unique |-> FALSE,
           config |-> IF config.type = "reference" /\ "reference_object" \in DOMAIN config
                      THEN [reference |-> [target_object |-> config.reference_object]]
                      ELSE EmptyDict]]

attribute_payload(attribute_slug) ==
    LET config == IF attribute_slug \in DOMAIN attribute_config
                  THEN attribute_config[attribute_slug]
                  ELSE [title |-> title(replace_char(attribute_slug, "_", " ")),
                        type |-> "text", is_multiselect |-> FALSE]
    IN  [data |->
          [title |-> config.title,
           api_slug |-> attribute_slug,
           description |-> "Auto-created attribute for " \o config.title,
           type |-> config.type,
           is_multiselect |-> config.is_multiselect,
           is_required |-> FALSE,
           is_unique |-> FALSE,
           config |-> IF config.type = "reference" /\ "reference_object" \in DOMAIN config
                      THEN [reference |-> [target_object |-> config.reference_object]]
                      ELSE EmptyDict]]

(***************************************************************************)
(* AttioClient._lead_data_to_dict and the payload builders.  A dict is a   *)
(* function from its keys; {'data': {'values': attributes}} is a record.   *)
(***************************************************************************)
lead_data_to_dict(lead) ==
    [k \in {"name", "email", "phone", "company", "job_title", "location",
            "linkedin_url", "notes"} |-> lead[k]]

\* attributes[k] = v when cond holds
PutIf(cond, d, k, v) == IF cond THEN Put(d, k, v) ELSE d

\* variant: only None counts as absent
Has_not_none(d, k) == Get(d, k) # None

Has(d, k) == Truthy(Get(d, k))

\* the parts of a description that are present, in order
Parts(cands) == SelectSeq(cands, LAMBDA c : c.present)
Texts(parts) == [i \in 1..Len(parts) |-> parts[i].text]

\* int(x) of a non-negative float, written as its decimal numeral
int(x) == LET dot == FindChar(x, {"."}, 1)
          IN  IF dot = 0 THEN x ELSE SubSeq(x, 1, dot - 1)

build_person_payload(data) ==
    LET a0 == [name |-> Get(data, "name")]
        a1 == PutIf(Has(data, "email"), a0, "email_addresses",
                    <<[email_address |-> Get(data, "email")]>>)
        a2 == PutIf(Has(data, "phone"), a1, "phone_numbers",
                    <<[original_phone_number |-> Get(data, "phone")]>>)
        a3 == PutIf(Has(data, "job_title"), a2, "job_title", Get(data, "job_title"))
        a4 == PutIf(Has(data, "location"), a3, "location", Get(data, "location"))
        a5 == PutIf(Has(data, "linkedin_url"), a4, "linkedin_url", Get(data, "linkedin_url"))
        a6 == IF Has(data, "company_domain")
              THEN Put(a5, "company", Get(data, "company_domain"))
              ELSE IF Has(data, "company_record_id")
              THEN Put(a5, "company",
                       <<[target_object |-> "companies",
                          target_record_id |-> Get(data, "company_record_id")]>>)
              ELSE a5
        notes_parts == Parts(<<[present |-> Has(data, "notes"), text |-> Get(data, "notes")]>>)
        a7 == PutIf(Len(notes_parts) > 0, a6, "description", join(Texts(notes_parts)))
    IN  [data |-> [values |-> a7]]

build_company_payload(data) ==
    LET email == Get(data, "email")
        a0 == [name |-> IF Has(data, "company") THEN Get(data, "company") ELSE Get(data, "name")]
        a1 == PutIf(Has(data, "location"), a0, "locations", <<Get(data, "location")>>)
        a2 == PutIf(Has(data, "email"), a1, "domains",
                    <<[domain |-> IF Contains(email, "@") THEN split_at_1(email) ELSE email]>>)
        desc_parts == Parts(<<
            [present |-> Has(data, "name") /\ Has(data, "company"),
             text |-> "Contact: " \o Get(data, "name")],
            [present |-> Has(data, "job_title"), text |-> "Title: " \o Get(data, "job_title")],
            [present |-> Has(data, "email"), text |-> "Email: " \o Get(data, "email")],
            [present |-> Has(data, "phone"), text |-> "Phone: " \o Get(data, "phone")],
            [present |-> Has(data, "linkedin_url"),
             text |-> "LinkedIn: " \o Get(data, "linkedin_url")],
            [present |-> Has(data, "notes"), text |-> "\n" \o Get(data, "notes")] >>)
        a3 == PutIf(Len(desc_parts) > 0, a2, "description", join(Texts(desc_parts)))
    IN  [data |-> [values |-> a3]]

build_deal_payload(data) ==
    LET a0 == [name |-> Get(data, "name")]
        a1 == PutIf(Has(data, "deal_value"), a0, "value",
                    [currency |-> "USD", value |-> int(Get(data, "deal_value"))])
        a2 == PutIf(Has(data, "deal_stage"), a1, "stage", Get(data, "deal_stage"))
        desc_parts == Parts(<<
            [present |-> Has(data, "company"), text |-> "Company: " \o Get(data, "company")],
            [present |-> Has(data, "name") /\ ~Has(data, "company"),
             text |-> "Contact: " \o Get(data, "name")],
            [present |-> Has(data, "notes"), text |-> Get(data, "notes")] >>)
        a3 == PutIf(Len(desc_parts) > 0, a2, "description", join(Texts(desc_parts)))
    IN  [data |-> [values |-> a3]]

build_user_payload(data) ==
    LET a0 == [name |-> Get(data, "name")]
        a1 == PutIf(Has(data, "email"), a0, "email_address", Get(data, "email"))
        a2 == PutIf(Has(data, "job_title"), a1, "job_title", Get(data, "job_title"))
        a3 == PutIf(Has(data, "notes"), a2, "description", Get(data, "notes"))
    IN  [data |-> [values |-> a3]]

build_attio_payload(data, object_type) ==
    CASE object_type = "person"  -> build_person_payload(data)
      [] object_type = "company" -> build_company_payload(data)
      [] object_type = "deal"    -> build_deal_payload(data)
      [] object_type = "user"    -> build_user_payload(data)

valid_types == {"person", "company", "deal", "user"}

object_plural(object_type) ==
    CASE object_type = "person"  -> "people"
      [] object_type = "company" -> "companies"
      [] object_type = "deal"    -> "deals"
      [] object_type = "user"    -> "users"

(***************************************************************************)
(* The CRM REST service: what one requests.post can do.  A response has a  *)
(* status (0: no response at all, a connection error or the 15 s timeout), *)
(* a body that is JSON (doc) or not, and err, the text of the exception    *)
(* requests raises for it.  A 2xx answer carries a JSON object.            *)
(***************************************************************************)
Response(status, json, doc, err) ==
    [status |-> status, json |-> json, doc |-> doc, err |-> err]

MissingJobTitle == "Cannot find attribute with slug/ID \"job_title\"."
MissingLinkedinCurly == "Cannot find attribute with slug/ID <linkedin_url>."
MissingUnquoted == "Cannot find attribute job_title"

Timeout == Response(0, FALSE, EmptyDict, "Read timed out. (read timeout=15)")

RecordResponses ==
    { Response(200, TRUE, [id |-> [record_id |-> "rec_1"]], ""),
      Response(400, TRUE, [message |-> MissingJobTitle], "400 Client Error"),
      Response(400, TRUE, [message |-> MissingLinkedinCurly], "400 Client Error"),
      Response(400, TRUE, [message |-> MissingUnquoted], "400 Client Error"),
      Response(400, TRUE, [message |-> "Invalid value"], "400 Client Error"),
      Response(400, FALSE, EmptyDict, "400 Client Error"),
      Response(404, TRUE, [message |-> MissingJobTitle], "404 Client Error"),
      Timeout }

AttributeResponses ==
    { Response(200, TRUE, [data |-> "attribute"], ""),
      Response(409, TRUE, [message |-> "Attribute already exists"], "409 Client Error"),
      Timeout }

CompanyResponses ==
    { Response(200, TRUE, [id |-> [record_id |-> "comp_1"]], ""),
      Response(200, TRUE, [data |-> [id |-> [record_id |-> "comp_1"]]], ""),
      Response(200, TRUE, EmptyDict, ""),
      Response(400, TRUE, [message |-> "Invalid value"], "400 Client Error"),
      Response(500, FALSE, EmptyDict, "500 Server Error"),
      Timeout }

\* requests.post followed by raise_for_status: does it raise a RequestException?
Raises(resp) == resp.status = 0 \/ resp.status >= 400

AttioAPIError(msg) == [type |-> "AttioAPIError", msg |-> msg]

\* variant: the status of the answer is not tested
missing_attribute_of_anystatus(e) ==
    IF e.status # 0 /\ e.json
    THEN LET error_message == IF "message" \in DOMAIN e.doc THEN e.doc["message"] ELSE ""
         IN  IF Contains(error_message, "Cannot find attribute")
             THEN re_search_missing(error_message)
             ELSE [found |-> FALSE, group |-> ""]
    ELSE [found |-> FALSE, group |-> ""]

(***************************************************************************)
(* AttioClient.create_record, the except branch: does the error of the     *)
(* first attempt start the creation of a missing attribute, and which.     *)
(***************************************************************************)
missing_attribute_of(e) ==
    IF e.status # 0 /\ e.status = 400 /\ e.json
    THEN LET error_message == IF "message" \in DOMAIN e.doc THEN e.doc["message"] ELSE ""
         IN  IF Contains(error_message, "Cannot find attribute")
             THEN re_search_missing(error_message)
             ELSE [found |-> FALSE, group |-> ""]
    ELSE [found |-> FALSE, group |-> ""]

\* the detail of the AttioAPIError create_record raises for the error e
error_detail(e) ==
    IF e.status # 0 /\ e.json /\ "message" \in DOMAIN e.doc
    THEN e.doc["message"]
    ELSE e.err

creation_failed(object_type, e) ==
    AttioAPIError(capitalize(object_type) \o " creation failed: " \o error_detail(e))

(***************************************************************************)
(* AttioClient._create_or_get_company: the payload of the company-create   *)
(* call, and create_record's use of its result.                            *)
(***************************************************************************)
company_payload(company_name, website_domain, notes) ==
    LET v0 == [name |-> company_name]
        v1 == PutIf(Truthy(website_domain), v0, "domains", <<[domain |-> website_domain]>>)
        v2 == PutIf(Truthy(notes), v1, "description", notes)
    IN  [data |-> [values |-> v2]]

\* data after the company-create call answered resp
link_company(data, resp, website_domain) ==
    LET company_record == IF Raises(resp) THEN EmptyDict ELSE resp.doc
        company_domain == IF Raises(resp) THEN None ELSE website_domain
        id == IF "id" \in DOMAIN company_record THEN company_record["id"] ELSE EmptyDict
        record_id == Get(id, "record_id")
    IN  IF DOMAIN company_record # {}
        THEN IF Truthy(record_id) THEN Put(data, "company_record_id", record_id)
             ELSE IF Truthy(company_domain) THEN Put(data, "company_domain", company_domain)
             ELSE data
        ELSE data

(***************************************************************************)
(* The pipeline of one message: LeadBot.handle_lead_mention.               *)
(***************************************************************************)
VARIABLES
    pc,                 \* where the pipeline stands
    calls,              \* the outbound calls made so far, each with its outcome
    primary_error,      \* e of the primary attempt while the fallback attempt runs
    response_text,      \* process_lead_message: response_text
    parsed_data,        \* process_lead_message: data, as parse_gemini_response gave it
    lead_data,          \* handle_lead_mention: lead_data
    data,               \* create_record: data
    website_domain,     \* _create_or_get_company: website_domain
    payload,            \* create_record: payload
    first_error,        \* create_record: e, the failure of the first attempt
    missing_attribute,  \* create_record: missing_attribute
    created_record,     \* handle_lead_mention: created_record
    raised,             \* the exception handle_lead_mention caught
    reply,              \* the reply sent to the user
    history,            \* the top-level model calls that ended before this one
    suspended,          \* the pipeline of another message that waits at an await
    config              \* Config: the required values, as the environment gave them

vars == <<pc, calls, primary_error, response_text, parsed_data, lead_data, data,
          website_domain, payload, first_error, missing_attribute, created_record,
          raised, reply, history, suspended, config>>

\* the deadline a call is made with: timeout=15, or no timeout argument
Deadline(seconds) == [given |-> TRUE, seconds |-> seconds]
NoDeadline == [given |-> FALSE, seconds |-> 0]

\* model.generate_content(prompt)
GenCall(site, model_name, o) ==
    [op |-> "generate_content", site |-> site, model |-> model_name, outcome |-> o,
     timeout |-> NoDeadline]

\* requests.post(endpoint, headers=self.headers, json=json, timeout=15)
PostCall(endpoint, json, resp) ==
    [op |-> "post", endpoint |-> endpoint, json |-> json, outcome |-> resp,
     timeout |-> Deadline(15)]

NoResponse == Response(0, FALSE, EmptyDict, "")
NotParsed == [ok |-> FALSE, data |-> None]
NoError == [type |-> "", msg |-> ""]
NoReply == [kind |-> "", error |-> "", shown |-> <<>>]

\* Config with every required value present
Configured ==
    [DISCORD_BOT_TOKEN |-> "key", GOOGLE_API_KEY |-> "key", ATTIO_API_KEY |-> "key"]

\* no other message is being handled
NoPipeline == [pc |-> "absent"]

Init ==
    /\ pc = "mention"
    /\ calls = <<>>
    /\ primary_error = ""
    /\ response_text = <<>>
    /\ parsed_data = NotParsed
    /\ lead_data = EmptyDict
    /\ data = EmptyDict
    /\ website_domain = None
    /\ payload = EmptyDict
    /\ first_error = NoResponse
    /\ missing_attribute = ""
    /\ created_record = EmptyDict
    /\ raised = NoError
    /\ reply = NoReply
    /\ history = <<>>
    /\ suspended = NoPipeline
    /\ config = Configured

Contents == {"", "Met Sarah Chen, VP of Engineering at Stripe"}

\* handle_lead_mention up to the call of process_lead_message
HandleMention ==
    /\ pc = "mention"
    /\ \E content \in Contents :
         IF content = ""
         THEN /\ reply' = [kind |-> "need_info", error |-> "", shown |-> <<>>]
              /\ pc' = "done"
         ELSE /\ pc' = "extract_primary"
              /\ UNCHANGED reply
    /\ UNCHANGED <<history, suspended, config, calls, primary_error, response_text, parsed_data, lead_data, data,
                   website_domain, payload, first_error, missing_attribute,
                   created_record, raised>>

\* variant: the clause for Exception stands first and takes every error
reply_for_exception_first(err) ==
    [kind |-> "unexpected", error |-> err.msg, shown |-> <<>>]

\* handle_lead_mention's except clauses: the reply for the exception err
reply_for(err) ==
    IF err.type = "GeminiProcessingError"
    THEN [kind |-> "extraction_failed", error |-> err.msg, shown |-> <<>>]
    ELSE IF err.type = "AttioAPIError"
    THEN [kind |-> "crm_failed", error |-> err.msg,
          shown |-> << lead_data["object_type"], lead_data["name"],
                       IF Truthy(lead_data["company"]) THEN lead_data["company"]
                       ELSE "N/A" >>]
    ELSE [kind |-> "unexpected", error |-> err.msg, shown |-> <<>>]

\* err reaches handle_lead_mention, which replies and ends
Caught(err) ==
    /\ raised' = err
    /\ reply' = reply_for(err)
    /\ pc' = "done"

\* call_gemini_api raised; process_lead_message wraps the error
GatewayFailed(gateway_msg) ==
    /\ Caught(process_failure(gateway_msg).error)
    /\ primary_error' = ""
    /\ UNCHANGED response_text

\* call_gemini_api returned text
GatewayReturned(text) ==
    /\ response_text' = text
    /\ primary_error' = ""
    /\ pc' = "parse"
    /\ UNCHANGED <<raised, reply>>

\* variant: once an earlier call has fallen back, the first attempt is made
\* on the fallback model
ExtractPrimary_sticky ==
    /\ pc = "extract_primary"
    /\ \E o \in GenOutcomes(ExtractTextIds) :
         LET model_name == IF \E i \in 1..Len(history) : Len(history[i].models) = 2
                           THEN GOOGLE_FALLBACK_MODEL
                           ELSE GOOGLE_MODEL
         IN  /\ calls' = Append(calls, GenCall("extract", model_name, o))
             /\ IF o.kind = "text"
                THEN GatewayReturned(ExtractText(o.id))
                ELSE LET e == ExceptionInTry(o)
                     IN  IF is_quota_error(e)
                         THEN /\ pc' = "extract_fallback"
                              /\ primary_error' = e
                              /\ UNCHANGED <<response_text, raised, reply>>
                         ELSE GatewayFailed("API request failed: " \o e)
    /\ UNCHANGED <<history, suspended, config, parsed_data, lead_data, data, website_domain, payload, first_error,
                   missing_attribute, created_record>>

\* call_gemini_api(message): the attempt on the primary model
ExtractPrimary ==
    /\ pc = "extract_primary"
    /\ \E o \in GenOutcomes(ExtractTextIds) :
         /\ calls' = Append(calls, GenCall("extract", GOOGLE_MODEL, o))
         /\ IF o.kind = "text"
            THEN GatewayReturned(ExtractText(o.id))
            ELSE LET e == ExceptionInTry(o)
                 IN  IF is_quota_error(e)
                     THEN /\ pc' = "extract_fallback"
                          /\ primary_error' = e
                          /\ UNCHANGED <<response_text, raised, reply>>
                     ELSE GatewayFailed("API request failed: " \o e)
    /\ UNCHANGED <<history, suspended, config, parsed_data, lead_data, data, website_domain, payload, first_error,
                   missing_attribute, created_record>>

\* variant: the error of the fallback attempt is raised as it is
ExtractFallback_fallback_only ==
    /\ pc = "extract_fallback"
    /\ \E o \in GenOutcomes(ExtractTextIds) :
         /\ calls' = Append(calls, GenCall("extract", GOOGLE_FALLBACK_MODEL, o))
         /\ IF o.kind = "text"
            THEN GatewayReturned(ExtractText(o.id))
            ELSE LET fallback_error == "API request failed: " \o ExceptionInTry(o)
                 IN  GatewayFailed(fallback_error)
    /\ UNCHANGED <<history, suspended, config, parsed_data, lead_data, data, website_domain, payload, first_error,
                   missing_attribute, created_record>>

\* variant: the except branch falls back again on a quota error of the
\* fallback attempt
ExtractFallback_requota ==
    /\ pc = "extract_fallback"
    /\ \E o \in GenOutcomes(ExtractTextIds) :
         /\ calls' = Append(calls, GenCall("extract", GOOGLE_FALLBACK_MODEL, o))
         /\ IF o.kind = "text"
            THEN GatewayReturned(ExtractText(o.id))
            ELSE IF is_quota_error(ExceptionInTry(o))
            THEN /\ pc' = "extract_fallback"
                 /\ UNCHANGED <<primary_error, response_text, raised, reply>>
            ELSE LET fallback_error == "API request failed: " \o ExceptionInTry(o)
                 IN  GatewayFailed("Both models failed. Primary: " \o primary_error
                                       \o ", Fallback: " \o fallback_error)
    /\ UNCHANGED <<history, suspended, config, parsed_data, lead_data, data, website_domain, payload, first_error,
                   missing_attribute, created_record>>

\* call_gemini_api(message, use_fallback=True), called from the except branch
ExtractFallback ==
    /\ pc = "extract_fallback"
    /\ \E o \in GenOutcomes(ExtractTextIds) :
         /\ calls' = Append(calls, GenCall("extract", GOOGLE_FALLBACK_MODEL, o))
         /\ IF o.kind = "text"
            THEN GatewayReturned(ExtractText(o.id))
            ELSE LET fallback_error == "API request failed: " \o ExceptionInTry(o)
                 IN  GatewayFailed("Both models failed. Primary: " \o primary_error
                                       \o ", Fallback: " \o fallback_error)
    /\ UNCHANGED <<history, suspended, config, parsed_data, lead_data, data, website_domain, payload, first_error,
                   missing_attribute, created_record>>

\* process_lead_message after call_gemini_api returned: parse, validate;
\* handle_lead_mention goes on to create_record or replies
ParseResponse ==
    /\ pc = "parse"
    /\ parsed_data' = parse_gemini_response(response_text)
    /\ LET r == process_response(response_text)
       IN  IF r.ok
           THEN /\ lead_data' = r.lead
                /\ pc' = "create_record"
                /\ UNCHANGED <<raised, reply>>
           ELSE /\ Caught(r.error)
                /\ UNCHANGED lead_data
    /\ UNCHANGED <<history, suspended, config, calls, primary_error, response_text, data, website_domain, payload,
                   first_error, missing_attribute, created_record>>

\* create_record returns record; handle_lead_mention confirms
ReturnRecord(record) ==
    /\ created_record' = record
    /\ reply' = [kind |-> "success", error |-> "", shown |-> <<>>]
    /\ pc' = "done"

\* variant: the company step is taken for every lead that names a company
CreateRecordBegin_any_kind ==
    /\ pc = "create_record"
    /\ IF ~Truthy(config["ATTIO_API_KEY"])
       THEN /\ Caught(AttioAPIError("ATTIO_API_KEY not configured"))
            /\ UNCHANGED <<data, payload>>
       ELSE IF lead_data["object_type"] \notin valid_types
            THEN /\ Caught(AttioAPIError("Invalid object_type: " \o lead_data["object_type"]
                          \o ". Must be one of ['person', 'company', 'deal', 'user']"))
                 /\ UNCHANGED <<data, payload>>
            ELSE LET d == lead_data_to_dict(lead_data)
                 IN  /\ data' = d
                     /\ IF Has(d, "company")
                        THEN pc' = "search_primary" /\ UNCHANGED payload
                        ELSE /\ pc' = "record_create"
                             /\ payload' = build_attio_payload(d, lead_data["object_type"])
                     /\ UNCHANGED <<raised, reply>>
    /\ UNCHANGED <<history, suspended, config, calls, primary_error, response_text, parsed_data, lead_data,
                   website_domain, first_error, missing_attribute, created_record>>

\* variant: the record of a person is created without the company step
CreateRecordBegin_no_company ==
    /\ pc = "create_record"
    /\ IF ~Truthy(config["ATTIO_API_KEY"])
       THEN /\ Caught(AttioAPIError("ATTIO_API_KEY not configured"))
            /\ UNCHANGED <<data, payload>>
       ELSE IF lead_data["object_type"] \notin valid_types
            THEN /\ Caught(AttioAPIError("Invalid object_type: " \o lead_data["object_type"]
                          \o ". Must be one of ['person', 'company', 'deal', 'user']"))
                 /\ UNCHANGED <<data, payload>>
            ELSE LET d == lead_data_to_dict(lead_data)
                 IN  /\ data' = d
                     /\ pc' = "record_create"
                     /\ payload' = build_attio_payload(d, lead_data["object_type"])
                     /\ UNCHANGED <<raised, reply>>
    /\ UNCHANGED <<history, suspended, config, calls, primary_error, response_text, parsed_data, lead_data,
                   website_domain, first_error, missing_attribute, created_record>>

\* variant: the object type is validated after the company step
CreateRecordBegin_latecheck ==
    /\ pc = "create_record"
    /\ IF ~Truthy(config["ATTIO_API_KEY"])
       THEN /\ Caught(AttioAPIError("ATTIO_API_KEY not configured"))
            /\ UNCHANGED <<data, payload>>
       ELSE LET d == lead_data_to_dict(lead_data)
            IN  IF lead_data["object_type"] \notin {"company", "deal", "user"} /\ Has(d, "company")
                THEN /\ data' = d
                     /\ pc' = "search_primary"
                     /\ UNCHANGED <<payload, raised, reply>>
                ELSE IF lead_data["object_type"] \notin valid_types
                THEN /\ Caught(AttioAPIError("Invalid object_type: " \o lead_data["object_type"]
                              \o ". Must be one of ['person', 'company', 'deal', 'user']"))
                     /\ UNCHANGED <<data, payload>>
                ELSE /\ data' = d
                     /\ pc' = "record_create"
                     /\ payload' = build_attio_payload(d, lead_data["object_type"])
                     /\ UNCHANGED <<raised, reply>>
    /\ UNCHANGED <<history, suspended, config, calls, primary_error, response_text, parsed_data, lead_data,
                   website_domain, first_error, missing_attribute, created_record>>

\* variant: a company that an earlier call created is not looked up or created
\* again
CreateRecordBegin_cached ==
    /\ pc = "create_record"
    /\ IF ~Truthy(config["ATTIO_API_KEY"])
       THEN /\ Caught(AttioAPIError("ATTIO_API_KEY not configured"))
            /\ UNCHANGED <<data, payload>>
       ELSE IF lead_data["object_type"] \notin valid_types
            THEN /\ Caught(AttioAPIError("Invalid object_type: " \o lead_data["object_type"]
                          \o ". Must be one of ['person', 'company', 'deal', 'user']"))
                 /\ UNCHANGED <<data, payload>>
            ELSE LET d == lead_data_to_dict(lead_data)
                 IN  /\ data' = d
                     /\ IF /\ lead_data["object_type"] = "person"
                           /\ Has(d, "company")
                           /\ Len(history) = 0
                        THEN pc' = "search_primary" /\ UNCHANGED payload
                        ELSE /\ pc' = "record_create"
                             /\ payload' = build_attio_payload(d, lead_data["object_type"])
                     /\ UNCHANGED <<raised, reply>>
    /\ UNCHANGED <<history, suspended, config, calls, primary_error, response_text, parsed_data, lead_data,
                   website_domain, first_error, missing_attribute, created_record>>

\* create_record(lead_data): AttioClient() and client.create_record up to its
\* first outbound call
CreateRecordBegin ==
    /\ pc = "create_record"
    /\ IF ~Truthy(config["ATTIO_API_KEY"])
       THEN /\ Caught(AttioAPIError("ATTIO_API_KEY not configured"))
            /\ UNCHANGED <<data, payload>>
       ELSE IF lead_data["object_type"] \notin valid_types
            THEN /\ Caught(AttioAPIError("Invalid object_type: " \o lead_data["object_type"]
                          \o ". Must be one of ['person', 'company', 'deal', 'user']"))
                 /\ UNCHANGED <<data, payload>>
            ELSE LET d == lead_data_to_dict(lead_data)
                 IN  /\ data' = d
                     /\ IF lead_data["object_type"] = "person" /\ Has(d, "company")
                        THEN pc' = "search_primary" /\ UNCHANGED payload
                        ELSE /\ pc' = "record_create"
                             /\ payload' = build_attio_payload(d, lead_data["object_type"])
                     /\ UNCHANGED <<raised, reply>>
    /\ UNCHANGED <<history, suspended, config, calls, primary_error, response_text, parsed_data, lead_data,
                   website_domain, first_error, missing_attribute, created_record>>

\* variant: AttioClient's copy of the list lacks 'limit exceeded'
AttioClient_is_quota_error_short_list(error) ==
    LET error_str == lower(error)
    IN  \E indicator \in quota_indicators \ {"limit exceeded"} :
            Contains(error_str, indicator)

(***************************************************************************)
(* attio_client._is_quota_error (AttioClient's own copy)                   *)
(***************************************************************************)
AttioClient_is_quota_error(error) ==
    LET error_str == lower(error)
    IN  \E indicator \in quota_indicators : Contains(error_str, indicator)

\* _search_company_website returns website; _create_or_get_company goes on
FinishSearch(website) ==
    /\ website_domain' = website
    /\ primary_error' = ""
    /\ pc' = "company_create"

\* _search_company_website(company_name): the attempt on the primary model,
\* the model's texts drawn from texts
SearchPrimaryOn(texts) ==
    /\ pc = "search_primary"
    /\ \E o \in GenOutcomes(texts) :
         /\ calls' = Append(calls, GenCall("enrich", GOOGLE_MODEL, o))
         /\ IF o.kind \in {"text", "empty"}
            THEN FinishSearch(search_result(o.id))
            ELSE IF AttioClient_is_quota_error(o.id)
                 THEN /\ pc' = "search_fallback"
                      /\ primary_error' = o.id
                      /\ UNCHANGED website_domain
                 ELSE FinishSearch(None)
    /\ UNCHANGED <<history, suspended, config, response_text, parsed_data, lead_data, data, payload, first_error,
                   missing_attribute, created_record, raised, reply>>

\* _search_company_website(company_name): the attempt on the primary model
SearchPrimary == SearchPrimaryOn(EnrichTexts)

\* variant: an exception of the fallback attempt is not caught
SearchFallback_raises ==
    /\ pc = "search_fallback"
    /\ \E o \in GenOutcomes(EnrichTexts) :
         /\ calls' = Append(calls, GenCall("enrich", GOOGLE_FALLBACK_MODEL, o))
         /\ IF o.kind \in {"text", "empty"}
            THEN /\ FinishSearch(search_result(o.id))
                 /\ UNCHANGED <<raised, reply>>
            ELSE /\ Caught([type |-> "Exception", msg |-> o.id])
                 /\ UNCHANGED <<website_domain, primary_error>>
    /\ UNCHANGED <<history, suspended, config, response_text, parsed_data, lead_data, data, payload, first_error,
                   missing_attribute, created_record>>

\* _search_company_website(company_name, use_fallback=True), the model's
\* texts drawn from texts
SearchFallbackOn(texts) ==
    /\ pc = "search_fallback"
    /\ \E o \in GenOutcomes(texts) :
         /\ calls' = Append(calls, GenCall("enrich", GOOGLE_FALLBACK_MODEL, o))
         /\ IF o.kind \in {"text", "empty"}
            THEN FinishSearch(search_result(o.id))
            ELSE FinishSearch(None)
    /\ UNCHANGED <<history, suspended, config, response_text, parsed_data, lead_data, data, payload, first_error,
                   missing_attribute, created_record, raised, reply>>

\* _search_company_website(company_name, use_fallback=True)
SearchFallback == SearchFallbackOn(EnrichTexts)

\* variant: a failed company-create call ends create_record
CompanyCreate_raises ==
    /\ pc = "company_create"
    /\ \E resp \in CompanyResponses :
         LET d == link_company(data, resp, website_domain)
         IN  /\ calls' = Append(calls,
                     PostCall("/objects/companies/records",
                              company_payload(data["company"], website_domain,
                                              Get(data, "notes")),
                              resp))
             /\ IF Raises(resp)
                THEN /\ Caught(creation_failed("company", resp))
                     /\ UNCHANGED <<data, payload>>
                ELSE /\ data' = d
                     /\ payload' = build_attio_payload(d, lead_data["object_type"])
                     /\ pc' = "record_create"
                     /\ UNCHANGED <<raised, reply>>
    /\ UNCHANGED <<history, suspended, config, primary_error, response_text, parsed_data, lead_data, website_domain,
                   first_error, missing_attribute, created_record>>

\* _create_or_get_company after the search: the company-create call, then
\* create_record up to the record-create call
CompanyCreate ==
    /\ pc = "company_create"
    /\ \E resp \in CompanyResponses :
         LET d == link_company(data, resp, website_domain)
         IN  /\ calls' = Append(calls,
                     PostCall("/objects/companies/records",
                              company_payload(data["company"], website_domain,
                                              Get(data, "notes")),
                              resp))
             /\ data' = d
             /\ payload' = build_attio_payload(d, lead_data["object_type"])
    /\ pc' = "record_create"
    /\ UNCHANGED <<history, suspended, config, primary_error, response_text, parsed_data, lead_data, website_domain,
                   first_error, missing_attribute, created_record, raised, reply>>

record_endpoint == "/objects/" \o object_plural(lead_data["object_type"]) \o "/records"
attribute_endpoint == "/objects/" \o object_plural(lead_data["object_type"]) \o "/attributes"

\* create_record: the record-create call
RecordCreate ==
    /\ pc = "record_create"
    /\ \E resp \in RecordResponses :
         /\ calls' = Append(calls, PostCall(record_endpoint, payload, resp))
         /\ IF ~Raises(resp)
            THEN /\ ReturnRecord(resp.doc)
                 /\ UNCHANGED <<first_error, missing_attribute, raised>>
            ELSE LET match == missing_attribute_of(resp)
                 IN  IF match.found
                     THEN /\ pc' = "attribute_create"
                          /\ first_error' = resp
                          /\ missing_attribute' = match.group
                          /\ UNCHANGED <<created_record, raised, reply>>
                     ELSE /\ Caught(creation_failed(lead_data["object_type"], resp))
                          /\ UNCHANGED <<first_error, missing_attribute, created_record>>
    /\ UNCHANGED <<history, suspended, config, primary_error, response_text, parsed_data, lead_data, data,
                   website_domain, payload>>

\* variant: the record-create call is made again whether or not the attribute
\* was created
AttributeCreate_replays ==
    /\ pc = "attribute_create"
    /\ \E resp \in AttributeResponses :
         /\ calls' = Append(calls,
                PostCall(attribute_endpoint, attribute_payload(missing_attribute), resp))
         /\ pc' = "record_retry"
         /\ UNCHANGED <<raised, reply>>
    /\ UNCHANGED <<history, suspended, config, primary_error, response_text, parsed_data, lead_data, data,
                   website_domain, payload, first_error, missing_attribute,
                   created_record>>

\* variant: an attribute-create call rejected with 409 (the attribute exists)
\* counts as done and the record-create call is made again
AttributeCreate_exists_ok ==
    /\ pc = "attribute_create"
    /\ \E resp \in AttributeResponses :
         /\ calls' = Append(calls,
                PostCall(attribute_endpoint, attribute_payload(missing_attribute), resp))
         /\ IF ~Raises(resp) \/ resp.status = 409
            THEN /\ pc' = "record_retry"
                 /\ UNCHANGED <<raised, reply>>
            ELSE Caught(creation_failed(lead_data["object_type"], first_error))
    /\ UNCHANGED <<history, suspended, config, primary_error, response_text, parsed_data, lead_data, data,
                   website_domain, payload, first_error, missing_attribute,
                   created_record>>

\* variant: a failed attribute-create call is made again until it succeeds
AttributeCreate_until_created ==
    /\ pc = "attribute_create"
    /\ \E resp \in AttributeResponses :
         /\ calls' = Append(calls,
                PostCall(attribute_endpoint, attribute_payload(missing_attribute), resp))
         /\ pc' = IF ~Raises(resp) THEN "record_retry" ELSE "attribute_create"
         /\ UNCHANGED <<raised, reply>>
    /\ UNCHANGED <<history, suspended, config, primary_error, response_text, parsed_data, lead_data, data,
                   website_domain, payload, first_error, missing_attribute,
                   created_record>>

\* create_record: _create_attribute for the missing attribute
AttributeCreate ==
    /\ pc = "attribute_create"
    /\ \E resp \in AttributeResponses :
         /\ calls' = Append(calls,
                PostCall(attribute_endpoint, attribute_payload(missing_attribute), resp))
         /\ IF ~Raises(resp)
            THEN /\ pc' = "record_retry"
                 /\ UNCHANGED <<raised, reply>>
            ELSE Caught(creation_failed(lead_data["object_type"], first_error))
    /\ UNCHANGED <<history, suspended, config, primary_error, response_text, parsed_data, lead_data, data,
                   website_domain, payload, first_error, missing_attribute,
                   created_record>>

\* variant: the second attempt leaves the missing attribute out of the payload
RecordRetry_rebuild ==
    /\ pc = "record_retry"
    /\ \E resp \in RecordResponses :
         /\ calls' = Append(calls,
                PostCall(record_endpoint,
                         [data |-> [values |->
                            [k \in DOMAIN payload.data.values \ {missing_attribute}
                               |-> payload.data.values[k]]]],
                         resp))
         /\ IF ~Raises(resp)
            THEN /\ ReturnRecord(resp.doc)
                 /\ UNCHANGED raised
            ELSE /\ Caught(creation_failed(lead_data["object_type"], first_error))
                 /\ UNCHANGED created_record
    /\ UNCHANGED <<history, suspended, config, primary_error, response_text, parsed_data, lead_data, data,
                   website_domain, payload, first_error, missing_attribute>>

\* variant: a second attempt that fails for a missing attribute creates that
\* attribute and tries again
RecordRetry_heal_again ==
    /\ pc = "record_retry"
    /\ \E resp \in RecordResponses :
         /\ calls' = Append(calls, PostCall(record_endpoint, payload, resp))
         /\ IF ~Raises(resp)
            THEN /\ ReturnRecord(resp.doc)
                 /\ UNCHANGED <<raised, missing_attribute>>
            ELSE LET match == missing_attribute_of(resp)
                 IN  IF match.found
                     THEN /\ pc' = "attribute_create"
                          /\ missing_attribute' = match.group
                          /\ UNCHANGED <<created_record, raised, reply>>
                     ELSE /\ Caught(creation_failed(lead_data["object_type"], first_error))
                          /\ UNCHANGED <<created_record, missing_attribute>>
    /\ UNCHANGED <<history, suspended, config, primary_error, response_text, parsed_data, lead_data, data,
                   website_domain, payload, first_error>>

\* variant: when the second attempt fails, the attribute that was created is
\* deleted again
RecordRetry_rollback ==
    /\ pc = "record_retry"
    /\ \E resp \in RecordResponses :
         /\ IF ~Raises(resp)
            THEN /\ calls' = Append(calls, PostCall(record_endpoint, payload, resp))
                 /\ ReturnRecord(resp.doc)
                 /\ UNCHANGED raised
            ELSE /\ calls' = Append(Append(calls, PostCall(record_endpoint, payload, resp)),
                                   [op |-> "delete",
                                    endpoint |-> attribute_endpoint \o "/" \o missing_attribute,
                                    json |-> EmptyDict,
                                    outcome |-> Response(200, TRUE, EmptyDict, ""),
                                    timeout |-> Deadline(15)])
                 /\ Caught(creation_failed(lead_data["object_type"], first_error))
                 /\ UNCHANGED created_record
    /\ UNCHANGED <<history, suspended, config, primary_error, response_text, parsed_data, lead_data, data,
                   website_domain, payload, first_error, missing_attribute>>

\* variant: the answer of the second attempt is returned without
\* raise_for_status
RecordRetry_unchecked ==
    /\ pc = "record_retry"
    /\ \E resp \in RecordResponses :
         /\ calls' = Append(calls, PostCall(record_endpoint, payload, resp))
         /\ ReturnRecord(resp.doc)
         /\ UNCHANGED raised
    /\ UNCHANGED <<history, suspended, config, primary_error, response_text, parsed_data, lead_data, data,
                   website_domain, payload, first_error, missing_attribute>>

\* create_record: the record-create call again, after the attribute was created
RecordRetry ==
    /\ pc = "record_retry"
    /\ \E resp \in RecordResponses :
         /\ calls' = Append(calls, PostCall(record_endpoint, payload, resp))
         /\ IF ~Raises(resp)
            THEN /\ ReturnRecord(resp.doc)
                 /\ UNCHANGED raised
            ELSE /\ Caught(creation_failed(lead_data["object_type"], first_error))
                 /\ UNCHANGED created_record
    /\ UNCHANGED <<history, suspended, config, primary_error, response_text, parsed_data, lead_data, data,
                   website_domain, payload, first_error, missing_attribute>>

Next ==
    \/ HandleMention
    \/ ExtractPrimary
    \/ ExtractFallback
    \/ ParseResponse
    \/ CreateRecordBegin
    \/ SearchPrimary
    \/ SearchFallback
    \/ CompanyCreate
    \/ RecordCreate
    \/ AttributeCreate
    \/ RecordRetry

Spec == Init /\ [][Next]_vars

(***************************************************************************)
(* parse_gemini_response on every answer: process_lead_message at the      *)
(* point where call_gemini_api has returned response_text, for every text  *)
(* of at most MaxLen tokens over ParseAlphabet.                            *)
(***************************************************************************)
MaxLen == 6

ParseAlphabet == {"{", "}", "[", "]", "k:", "x"}

ResponseTexts == UNION {[1..n -> ParseAlphabet] : n \in 0..MaxLen}

InitParse ==
    /\ pc = "parse"
    /\ response_text \in ResponseTexts
    /\ calls = << GenCall("extract", GOOGLE_MODEL, [kind |-> "text", id |-> "T_any"]) >>
    /\ primary_error = ""
    /\ parsed_data = NotParsed
    /\ lead_data = EmptyDict
    /\ data = EmptyDict
    /\ website_domain = None
    /\ payload = EmptyDict
    /\ first_error = NoResponse
    /\ missing_attribute = ""
    /\ created_record = EmptyDict
    /\ raised = NoError
    /\ reply = NoReply
    /\ history = <<>>
    /\ suspended = NoPipeline
    /\ config = Configured

NextParse == ParseResponse

SpecParse == InitParse /\ [][NextParse]_vars

(***************************************************************************)
(* The model calls of a running process: one top-level call of             *)
(* call_gemini_api (from process_lead_message) or of                       *)
(* _search_company_website (from _create_or_get_company) after another, up *)
(* to MaxCalls ended calls.  calls holds the attempts of the call that     *)
(* runs, history the calls that have ended, each as the models it used and *)
(* whether it gave a text.                                                 *)
(***************************************************************************)
MaxCalls == 2

EndedCall ==
    [site   |-> calls[1].site,
     models |-> [i \in 1..Len(calls) |-> calls[i].model],
     text   |-> calls[Len(calls)].outcome.kind = "text"]

\* a caller starts a top-level call; the one before has returned or raised
NewCall(first_pc) ==
    /\ pc \in {"idle", "parse", "done", "company_create"}
    /\ Len(history) < MaxCalls
    /\ history' = IF calls = <<>> THEN history ELSE Append(history, EndedCall)
    /\ calls' = <<>>
    /\ pc' = first_pc
    /\ primary_error' = ""
    /\ response_text' = <<>>
    /\ website_domain' = None
    /\ raised' = NoError
    /\ reply' = NoReply
    /\ UNCHANGED <<suspended, config, parsed_data, lead_data, data, payload, first_error,
                   missing_attribute, created_record>>

\* process_lead_message: call_gemini_api(message)
NewGenerate == NewCall("extract_primary")

\* _create_or_get_company: self._search_company_website(company_name)
NewResolveDomain == NewCall("search_primary")

InitTiers ==
    /\ pc = "idle"
    /\ calls = <<>>
    /\ primary_error = ""
    /\ response_text = <<>>
    /\ parsed_data = NotParsed
    /\ lead_data = EmptyDict
    /\ data = EmptyDict
    /\ website_domain = None
    /\ payload = EmptyDict
    /\ first_error = NoResponse
    /\ missing_attribute = ""
    /\ created_record = EmptyDict
    /\ raised = NoError
    /\ reply = NoReply
    /\ history = <<>>
    /\ suspended = NoPipeline
    /\ config = Configured

NextTiers ==
    \/ NewGenerate
    \/ NewResolveDomain
    \/ ExtractPrimary
    \/ ExtractFallback
    \/ SearchPrimary
    \/ SearchFallback

SpecTiers == InitTiers /\ [][NextTiers]_vars

(***************************************************************************)
(* AttioClient.create_record on every LeadData of a valid kind with at     *)
(* most MaxFields optional fields set.  A field that is set holds a value  *)
(* or the empty string, which LeadData accepts for an Optional[str]; email *)
(* may also hold an address with nothing after the '@'.                    *)
(* The behaviours end with the answer to the first record-create call:     *)
(* the call made again after a created attribute carries the same payload. *)
(***************************************************************************)
MaxFields == 2

OptionalFields == LeadFields \ RequiredFields

Sample(f, i) ==
    IF i = 2 /\ f # "deal_value" THEN ""
    ELSE CASE f = "email"        -> IF i = 3 THEN "ann@" ELSE "ann@acme.io"
           [] f = "phone"        -> "+1 555 0100"
           [] f = "company"      -> "Acme"
           [] f = "job_title"    -> "VP"
           [] f = "location"     -> "Berlin"
           [] f = "linkedin_url" -> "https://linkedin.com/in/ann"
           [] f = "deal_value"   -> "50000"
           [] f = "deal_stage"   -> "prospect"
           [] f = "notes"        -> "met today"

\* the lead of the kind whose fields in S hold the samples c chooses
SampleLead(kind, S, c) ==
    LeadData([f \in S \cup RequiredFields |->
                IF f = "object_type" THEN kind
                ELSE IF f = "name" THEN "Ann"
                ELSE Sample(f, c[f])])

PayloadLeads ==
    UNION { { SampleLead(kind, S, c) : c \in [S -> 1..3] } :
            <<kind, S>> \in valid_types \X
                { S \in SUBSET OptionalFields : Cardinality(S) <= MaxFields } }

InitPayload ==
    /\ pc = "create_record"
    /\ lead_data \in PayloadLeads
    /\ calls = << GenCall("extract", GOOGLE_MODEL, [kind |-> "text", id |-> "T_any"]) >>
    /\ primary_error = ""
    /\ response_text = <<>>
    /\ parsed_data = NotParsed
    /\ data = EmptyDict
    /\ website_domain = None
    /\ payload = EmptyDict
    /\ first_error = NoResponse
    /\ missing_attribute = ""
    /\ created_record = EmptyDict
    /\ raised = NoError
    /\ reply = NoReply
    /\ history = <<>>
    /\ suspended = NoPipeline
    /\ config = Configured

NextPayload ==
    \/ CreateRecordBegin
    \/ SearchPrimary
    \/ SearchFallback
    \/ CompanyCreate
    \/ RecordCreate

SpecPayload == InitPayload /\ [][NextPayload]_vars

(***************************************************************************)
(* AttioClient._create_attribute on every slug of at most MaxSlugLen       *)
(* characters and on the slugs of attribute_config.  create_record stands  *)
(* after a first record-create call whose answer names the slug.           *)
(***************************************************************************)
MaxSlugLen == 3

SlugAlphabet == {"a", "B", "_", "2"}

RECURSIVE SlugsOfLen(_)
SlugsOfLen(n) ==
    IF n = 0 THEN {""} ELSE {s \o c : s \in SlugsOfLen(n - 1), c \in SlugAlphabet}

AttributeSlugs ==
    {"linkedin_url", "job_title", "location", "description", "companies"}
        \cup UNION {SlugsOfLen(n) : n \in 1..MaxSlugLen}

\* the 400 answer of the CRM that names the slug as missing
MissingAnswer(slug) ==
    Response(400, TRUE, [message |-> MissingPrefix \o "\"" \o slug \o "\"."],
             "400 Client Error")

AttributeLead == SampleLead("person", {"job_title"}, [f \in {"job_title"} |-> 1])

InitAttribute ==
    /\ pc = "attribute_create"
    /\ lead_data = AttributeLead
    /\ data = lead_data_to_dict(AttributeLead)
    /\ payload = build_attio_payload(lead_data_to_dict(AttributeLead), "person")
    /\ first_error \in {MissingAnswer(slug) : slug \in AttributeSlugs}
    /\ missing_attribute = missing_attribute_of(first_error).group
    /\ calls = << GenCall("extract", GOOGLE_MODEL, [kind |-> "text", id |-> "T_any"]),
                  PostCall("/objects/people/records", payload, first_error) >>
    /\ primary_error = ""
    /\ response_text = <<>>
    /\ parsed_data = NotParsed
    /\ website_domain = None
    /\ created_record = EmptyDict
    /\ raised = NoError
    /\ reply = NoReply
    /\ history = <<>>
    /\ suspended = NoPipeline
    /\ config = Configured

NextAttribute ==
    \/ AttributeCreate
    \/ RecordRetry

SpecAttribute == InitAttribute /\ [][NextAttribute]_vars

(***************************************************************************)
(* Two messages handled by one bot.  discord.py runs handle_lead_mention   *)
(* of each message as a coroutine on one event loop; a coroutine gives way *)
(* to the other only at an await that waits: typing(), add_reaction before *)
(* process_lead_message, add_reaction before create_record, and the        *)
(* awaits of the reply.  The calls to the model and to the CRM block the   *)
(* loop.  The variables above are those of the coroutine that runs;        *)
(* suspended holds those of the coroutine that waits.  Every variable of   *)
(* the pipeline is a local of its coroutine (the module-level              *)
(* create_record makes a new AttioClient per call), so giving way          *)
(* exchanges all of them.  The outcomes of the calls are drawn from the    *)
(* sets below.                                                             *)
(***************************************************************************)
Running ==
    [pc |-> pc, calls |-> calls, primary_error |-> primary_error,
     response_text |-> response_text, parsed_data |-> parsed_data,
     lead_data |-> lead_data, data |-> data, website_domain |-> website_domain,
     payload |-> payload, first_error |-> first_error,
     missing_attribute |-> missing_attribute, created_record |-> created_record,
     raised |-> raised, reply |-> reply]

\* a coroutine that has not begun
NotBegun ==
    [pc |-> "mention", calls |-> <<>>, primary_error |-> "",
     response_text |-> <<>>, parsed_data |-> NotParsed,
     lead_data |-> EmptyDict, data |-> EmptyDict, website_domain |-> None,
     payload |-> EmptyDict, first_error |-> NoResponse,
     missing_attribute |-> "", created_record |-> EmptyDict,
     raised |-> NoError, reply |-> NoReply]

\* where handle_lead_mention stands at an await that waits
AwaitPoints == {"mention", "extract_primary", "create_record", "done"}

\* variant: lead_data is one variable of the bot, shared by the coroutines
Yield_shared_lead ==
    /\ pc \in AwaitPoints
    /\ suspended.pc # "done"
    /\ suspended' = Running
    /\ pc' = suspended.pc
    /\ calls' = suspended.calls
    /\ primary_error' = suspended.primary_error
    /\ response_text' = suspended.response_text
    /\ parsed_data' = suspended.parsed_data
    /\ lead_data' = lead_data
    /\ data' = suspended.data
    /\ website_domain' = suspended.website_domain
    /\ payload' = suspended.payload
    /\ first_error' = suspended.first_error
    /\ missing_attribute' = suspended.missing_attribute
    /\ created_record' = suspended.created_record
    /\ raised' = suspended.raised
    /\ reply' = suspended.reply
    /\ UNCHANGED <<history, config>>

\* the coroutine that runs waits at an await and the other one goes on
Yield ==
    /\ pc \in AwaitPoints
    /\ suspended.pc # "done"
    /\ suspended' = Running
    /\ pc' = suspended.pc
    /\ calls' = suspended.calls
    /\ primary_error' = suspended.primary_error
    /\ response_text' = suspended.response_text
    /\ parsed_data' = suspended.parsed_data
    /\ lead_data' = suspended.lead_data
    /\ data' = suspended.data
    /\ website_domain' = suspended.website_domain
    /\ payload' = suspended.payload
    /\ first_error' = suspended.first_error
    /\ missing_attribute' = suspended.missing_attribute
    /\ created_record' = suspended.created_record
    /\ raised' = suspended.raised
    /\ reply' = suspended.reply
    /\ UNCHANGED <<history, config>>

TwoGenOutcomes ==
    { [kind |-> "text", id |-> "T_person_co"], [kind |-> "text", id |-> "T_company"],
      [kind |-> "text", id |-> "stripe.com"], [kind |-> "text", id |-> "NONE"],
      [kind |-> "error", id |-> "Resource Exhausted"],
      [kind |-> "error", id |-> "Internal error"] }

\* the answers of the CRM: a success with a record identifier (for an
\* attribute, a success), the 400 that names job_title, a timeout
TwoResponse(c) ==
    LET resp == c.outcome
    IN  \/ resp = Timeout
        \/ /\ resp.status = 200
           /\ \/ c.endpoint \in {"/objects/people/attributes", "/objects/companies/attributes"}
              \/ "id" \in DOMAIN resp.doc
        \/ /\ resp.status = 400
           /\ resp.json
           /\ Get(resp.doc, "message") = MissingJobTitle

\* the outcomes of the calls made so far are among those above
TwoOutcomes ==
    \A i \in 1..Len(calls) :
        IF calls[i].op = "generate_content"
        THEN calls[i].outcome \in TwoGenOutcomes
        ELSE TwoResponse(calls[i])

InitTwo ==
    /\ pc = "mention"
    /\ calls = <<>>
    /\ primary_error = ""
    /\ response_text = <<>>
    /\ parsed_data = NotParsed
    /\ lead_data = EmptyDict
    /\ data = EmptyDict
    /\ website_domain = None
    /\ payload = EmptyDict
    /\ first_error = NoResponse
    /\ missing_attribute = ""
    /\ created_record = EmptyDict
    /\ raised = NoError
    /\ reply = NoReply
    /\ history = <<>>
    /\ suspended = NotBegun
    /\ config = Configured

NextTwo ==
    \/ Yield /\ TwoOutcomes'
    \/ HandleMention /\ TwoOutcomes'
    \/ ExtractPrimary /\ TwoOutcomes'
    \/ ExtractFallback /\ TwoOutcomes'
    \/ ParseResponse /\ TwoOutcomes'
    \/ CreateRecordBegin /\ TwoOutcomes'
    \/ SearchPrimary /\ TwoOutcomes'
    \/ SearchFallback /\ TwoOutcomes'
    \/ CompanyCreate /\ TwoOutcomes'
    \/ RecordCreate /\ TwoOutcomes'
    \/ AttributeCreate /\ TwoOutcomes'
    \/ RecordRetry /\ TwoOutcomes'

SpecTwo == InitTwo /\ [][NextTwo]_vars

(***************************************************************************)
(* bot.main: the start of the process.  The environment gives each         *)
(* required value, or leaves it unset or empty; main validates the         *)
(* configuration before it makes the bot and connects, and a message is    *)
(* handled only by a connected bot.                                        *)
(***************************************************************************)
required_vars == {"DISCORD_BOT_TOKEN", "GOOGLE_API_KEY", "ATTIO_API_KEY"}

\* os.getenv gives None for an unset variable, "" for an empty one
ConfigValues == {None, "", "key"}

\* variant: only the token of the bot is required
validate_token_only(cfg) == Truthy(cfg["DISCORD_BOT_TOKEN"])

\* Config.validate
validate(cfg) ==
    LET missing_vars == {var \in required_vars : ~Truthy(cfg[var])}
    IN  missing_vars = {}

\* main: sys.exit(1) when the validation fails, else the bot starts and a
\* message that mentions it arrives
Main ==
    /\ pc = "main"
    /\ pc' = IF validate(config) THEN "mention" ELSE "exited"
    /\ UNCHANGED <<history, suspended, config, calls, primary_error, response_text,
                   parsed_data, lead_data, data, website_domain, payload, first_error,
                   missing_attribute, created_record, raised, reply>>

InitStartup ==
    /\ pc = "main"
    /\ config \in [required_vars -> ConfigValues]
    /\ calls = <<>>
    /\ primary_error = ""
    /\ response_text = <<>>
    /\ parsed_data = NotParsed
    /\ lead_data = EmptyDict
    /\ data = EmptyDict
    /\ website_domain = None
    /\ payload = EmptyDict
    /\ first_error = NoResponse
    /\ missing_attribute = ""
    /\ created_record = EmptyDict
    /\ raised = NoError
    /\ reply = NoReply
    /\ history = <<>>
    /\ suspended = NoPipeline

NextStartup ==
    \/ Main
    \/ HandleMention
    \/ ExtractPrimary
    \/ ExtractFallback
    \/ ParseResponse
    \/ CreateRecordBegin
    \/ SearchPrimary
    \/ SearchFallback
    \/ CompanyCreate
    \/ RecordCreate
    \/ AttributeCreate
    \/ RecordRetry

SpecStartup == InitStartup /\ [][NextStartup]_vars

(***************************************************************************)
(* AttioClient._link_person_to_company(person_record_id, company_domain,   *)
(* company_record_id), on its own: create_record does not call it.  data   *)
(* holds the arguments.                                                    *)
(***************************************************************************)
\* requests.patch(endpoint, headers=self.headers, json=json, timeout=15)
PatchCall(endpoint, json, resp) ==
    [op |-> "patch", endpoint |-> endpoint, json |-> json, outcome |-> resp,
     timeout |-> Deadline(15)]

PersonRecordIds == {"rec_1", "rec_2", "rec_3"}

LinkArguments ==
    [person_record_id : PersonRecordIds,
     company_domain : {None, "", "stripe.com"},
     company_record_id : {None, "", "comp_1"}]

PatchResponses ==
    { Response(200, TRUE, [id |-> [record_id |-> "rec_1"]], ""),
      Response(400, TRUE, [message |-> "Invalid value"], "400 Client Error"),
      Response(404, TRUE, [message |-> "Record not found"], "404 Client Error"),
      Response(500, FALSE, EmptyDict, "500 Server Error"),
      Timeout }

\* the value of the company relation the PATCH call sends
company_value(company_domain, company_record_id) ==
    IF Truthy(company_record_id)
    THEN <<[target_object |-> "companies", target_record_id |-> company_record_id]>>
    ELSE company_domain

LinkPersonToCompany ==
    /\ pc = "link"
    /\ IF Truthy(data["company_record_id"]) \/ Truthy(data["company_domain"])
       THEN \E resp \in PatchResponses :
              calls' = Append(calls,
                  PatchCall("/objects/people/records/" \o data["person_record_id"],
                            [data |-> [values |-> [companies |->
                                company_value(data["company_domain"],
                                              data["company_record_id"])]]],
                            resp))
       ELSE UNCHANGED calls
    /\ pc' = "linked"
    /\ UNCHANGED <<history, suspended, config, primary_error, response_text, parsed_data,
                   lead_data, data, website_domain, payload, first_error,
                   missing_attribute, created_record, raised, reply>>

InitLink ==
    /\ pc = "link"
    /\ data \in LinkArguments
    /\ calls = <<>>
    /\ primary_error = ""
    /\ response_text = <<>>
    /\ parsed_data = NotParsed
    /\ lead_data = EmptyDict
    /\ website_domain = None
    /\ payload = EmptyDict
    /\ first_error = NoResponse
    /\ missing_attribute = ""
    /\ created_record = EmptyDict
    /\ raised = NoError
    /\ reply = NoReply
    /\ history = <<>>
    /\ suspended = NoPipeline
    /\ config = Configured

NextLink == LinkPersonToCompany

SpecLink == InitLink /\ [][NextLink]_vars

(***************************************************************************)
(* create_record called again and again for person leads that name the     *)
(* same company, up to MaxCreates calls that have ended.  calls holds the   *)
(* calls of the create_record that runs; history holds, for each one that  *)
(* ended, how many website searches and company-create calls it made and   *)
(* the slug of the attribute it created.  The outcomes of the calls are    *)
(* those of TwoOutcomes.                                                   *)
(***************************************************************************)
MaxCreates == 2

RepeatLead == SampleLead("person", {"company", "job_title"},
                         [f \in {"company", "job_title"} |-> 1])

EndedCreate ==
    [lookups |-> Len(SelectSeq(calls, LAMBDA c : c.op = "generate_content")),
     creates |-> Len(SelectSeq(calls, LAMBDA c :
                        c.op = "post" /\ c.endpoint = "/objects/companies/records")),
     healed  |-> IF \E i \in 1..Len(calls) :
                       /\ calls[i].op = "post"
                       /\ calls[i].endpoint = "/objects/people/attributes"
                       /\ ~Raises(calls[i].outcome)
                 THEN missing_attribute
                 ELSE ""]

\* create_record(lead_data) once more: a new AttioClient, new locals
NewCreateRecord ==
    /\ pc = "done"
    /\ Len(history) < MaxCreates
    /\ history' = Append(history, EndedCreate)
    /\ pc' = "create_record"
    /\ calls' = <<>>
    /\ data' = EmptyDict
    /\ website_domain' = None
    /\ payload' = EmptyDict
    /\ first_error' = NoResponse
    /\ missing_attribute' = ""
    /\ created_record' = EmptyDict
    /\ raised' = NoError
    /\ reply' = NoReply
    /\ UNCHANGED <<suspended, config, primary_error, response_text, parsed_data, lead_data>>

InitRepeat ==
    /\ pc = "create_record"
    /\ lead_data = RepeatLead
    /\ calls = <<>>
    /\ primary_error = ""
    /\ response_text = <<>>
    /\ parsed_data = NotParsed
    /\ data = EmptyDict
    /\ website_domain = None
    /\ payload = EmptyDict
    /\ first_error = NoResponse
    /\ missing_attribute = ""
    /\ created_record = EmptyDict
    /\ raised = NoError
    /\ reply = NoReply
    /\ history = <<>>
    /\ suspended = NoPipeline
    /\ config = Configured

NextRepeat ==
    \/ NewCreateRecord
    \/ CreateRecordBegin
    \/ SearchPrimary /\ TwoOutcomes'
    \/ SearchFallback /\ TwoOutcomes'
    \/ CompanyCreate /\ TwoOutcomes'
    \/ RecordCreate /\ TwoOutcomes'
    \/ AttributeCreate /\ TwoOutcomes'
    \/ RecordRetry /\ TwoOutcomes'

SpecRepeat == InitRepeat /\ [][NextRepeat]_vars

(***************************************************************************)
(* The website search on texts made of up to MaxPieces pieces: the three   *)
(* prefixes the cleaning removes, a slash, a space, a name with a capital  *)
(* letter and a domain.                                                    *)
(***************************************************************************)
MaxPieces == 3

CleanPieces == {"https://", "http://", "www.", "/", " ", "Ab", "x.io"}

RECURSIVE PieceTexts(_)
PieceTexts(n) ==
    IF n = 0 THEN {""}
    ELSE PieceTexts(n - 1) \cup {t \o p : t \in PieceTexts(n - 1), p \in CleanPieces}

\* response.text of the search call (a text that is not empty)
CleanTexts == (PieceTexts(MaxPieces) \ {""}) \cup {"https://www.Example.com/"}

SearchPrimaryClean == SearchPrimaryOn(CleanTexts)

SearchFallbackClean == SearchFallbackOn(CleanTexts)

InitClean ==
    /\ pc = "create_record"
    /\ lead_data = RepeatLead
    /\ calls = <<>>
    /\ primary_error = ""
    /\ response_text = <<>>
    /\ parsed_data = NotParsed
    /\ data = EmptyDict
    /\ website_domain = None
    /\ payload = EmptyDict
    /\ first_error = NoResponse
    /\ missing_attribute = ""
    /\ created_record = EmptyDict
    /\ raised = NoError
    /\ reply = NoReply
    /\ history = <<>>
    /\ suspended = NoPipeline
    /\ config = Configured

NextClean ==
    \/ CreateRecordBegin
    \/ SearchPrimaryClean
    \/ SearchFallbackClean

SpecClean == InitClean /\ [][NextClean]_vars

(***************************************************************************)
(* The pipeline of one message when every outbound call returns or fails:  *)
(* each step of Next is one outbound call with the code that follows it,   *)
(* so a pipeline that can take a step takes one.  The outcomes of the      *)
(* calls are those of TwoOutcomes.                                         *)
(***************************************************************************)
NextFair ==
    \/ HandleMention /\ TwoOutcomes'
    \/ ExtractPrimary /\ TwoOutcomes'
    \/ ExtractFallback /\ TwoOutcomes'
    \/ ParseResponse /\ TwoOutcomes'
    \/ CreateRecordBegin /\ TwoOutcomes'
    \/ SearchPrimary /\ TwoOutcomes'
    \/ SearchFallback /\ TwoOutcomes'
    \/ CompanyCreate /\ TwoOutcomes'
    \/ RecordCreate /\ TwoOutcomes'
    \/ AttributeCreate /\ TwoOutcomes'
    \/ RecordRetry /\ TwoOutcomes'

\* the steps whose weak fairness is stated as such: the calls of the
\* extraction and of the CRM, with HandleMention and CreateRecordBegin that
\* lead up to them
CallStep ==
    \/ HandleMention /\ TwoOutcomes'
    \/ ExtractPrimary /\ TwoOutcomes'
    \/ ExtractFallback /\ TwoOutcomes'
    \/ CreateRecordBegin /\ TwoOutcomes'
    \/ CompanyCreate /\ TwoOutcomes'
    \/ RecordCreate /\ TwoOutcomes'
    \/ AttributeCreate /\ TwoOutcomes'
    \/ RecordRetry /\ TwoOutcomes'

\* ParseResponse, SearchPrimary and SearchFallback are enabled exactly where
\* the pipeline stands at them and every step of theirs leaves that place,
\* so their weak fairness is: the pipeline does not stay there for ever
StepsReturn ==
    \A p \in {"parse", "search_primary", "search_fallback"} : []<>(pc # p)

SpecFair == Init /\ [][NextFair]_vars /\ WF_vars(CallStep) /\ StepsReturn

(***************************************************************************)
(* Two create_record calls for the same person lead that overlap in time,  *)
(* against one CRM.  Inside one bot create_record never waits at an await  *)
(* (its calls block the event loop), so two calls overlap only when they   *)
(* are made by two processes, two bots on one workspace: the other process *)
(* may run between any two steps.  The CRM keeps the attributes it was     *)
(* asked to create: it answers a record-create call for a lead with        *)
(* job_title with the 400 that names job_title until the attribute was     *)
(* created, and an attribute-create call for an attribute that exists with *)
(* 409.  Any CRM call may time out instead.                                *)
(***************************************************************************)
\* a successful attribute-create call is in the call log log
AttributeCreatedBy(log) ==
    \E i \in 1..Len(log) :
        /\ log[i].op = "post"
        /\ log[i].endpoint = "/objects/people/attributes"
        /\ ~Raises(log[i].outcome)

\* the answer to the call this step makes is the one the CRM (or the model)
\* gives in the state the two processes have brought it to
CrmAnswers ==
    LET c == calls'[Len(calls')]
        exists == AttributeCreatedBy(calls) \/ AttributeCreatedBy(suspended.calls)
    IN  IF c.op = "generate_content"
        THEN c.outcome \in TwoGenOutcomes
        ELSE \/ c.outcome = Timeout
             \/ /\ c.endpoint = "/objects/companies/records"
                /\ c.outcome = Response(200, TRUE, [id |-> [record_id |-> "comp_1"]], "")
             \/ /\ c.endpoint = "/objects/people/records"
                /\ c.outcome = IF exists
                               THEN Response(200, TRUE, [id |-> [record_id |-> "rec_1"]], "")
                               ELSE Response(400, TRUE, [message |-> MissingJobTitle],
                                             "400 Client Error")
             \/ /\ c.endpoint = "/objects/people/attributes"
                /\ c.outcome = IF exists
                               THEN Response(409, TRUE, [message |-> "Attribute already exists"],
                                             "409 Client Error")
                               ELSE Response(200, TRUE, [data |-> "attribute"], "")

\* the process that runs is descheduled and the other process goes on
OtherProcessRuns ==
    /\ suspended.pc # "done"
    /\ suspended' = Running
    /\ pc' = suspended.pc
    /\ calls' = suspended.calls
    /\ primary_error' = suspended.primary_error
    /\ response_text' = suspended.response_text
    /\ parsed_data' = suspended.parsed_data
    /\ lead_data' = suspended.lead_data
    /\ data' = suspended.data
    /\ website_domain' = suspended.website_domain
    /\ payload' = suspended.payload
    /\ first_error' = suspended.first_error
    /\ missing_attribute' = suspended.missing_attribute
    /\ created_record' = suspended.created_record
    /\ raised' = suspended.raised
    /\ reply' = suspended.reply
    /\ UNCHANGED <<history, config>>

InitRace ==
    /\ pc = "create_record"
    /\ lead_data = RepeatLead
    /\ calls = <<>>
    /\ primary_error = ""
    /\ response_text = <<>>
    /\ parsed_data = NotParsed
    /\ data = EmptyDict
    /\ website_domain = None
    /\ payload = EmptyDict
    /\ first_error = NoResponse
    /\ missing_attribute = ""
    /\ created_record = EmptyDict
    /\ raised = NoError
    /\ reply = NoReply
    /\ history = <<>>
    /\ suspended = [NotBegun EXCEPT !.pc = "create_record", !.lead_data = RepeatLead]
    /\ config = Configured

NextRace ==
    \/ OtherProcessRuns
    \/ CreateRecordBegin
    \/ SearchPrimary /\ CrmAnswers
    \/ SearchFallback /\ CrmAnswers
    \/ CompanyCreate /\ CrmAnswers
    \/ RecordCreate /\ CrmAnswers
    \/ AttributeCreate /\ CrmAnswers
    \/ RecordRetry /\ CrmAnswers

SpecRace == InitRace /\ [][NextRace]_vars

(***************************************************************************)
(* Observers used by the properties: the outbound calls made so far, by    *)
(* what they were for.                                                     *)
(***************************************************************************)
ExtractCalls ==
    SelectSeq(calls, LAMBDA c : c.op = "generate_content" /\ c.site = "extract")

EnrichCalls ==
    SelectSeq(calls, LAMBDA c : c.op = "generate_content" /\ c.site = "enrich")

PostsTo(endpoint) ==
    SelectSeq(calls, LAMBDA c : c.op = "post" /\ c.endpoint = endpoint)

HasLead == DOMAIN lead_data # {}

ValidLead == HasLead /\ lead_data["object_type"] \in valid_types

\* the endpoints of the target object kind, written out
RecordEndpointOf(kind) ==
    CASE kind = "person"  -> "/objects/people/records"
      [] kind = "company" -> "/objects/companies/records"
      [] kind = "deal"    -> "/objects/deals/records"
      [] kind = "user"    -> "/objects/users/records"

AttributeEndpointOf(kind) ==
    CASE kind = "person"  -> "/objects/people/attributes"
      [] kind = "company" -> "/objects/companies/attributes"
      [] kind = "deal"    -> "/objects/deals/attributes"
      [] kind = "user"    -> "/objects/users/attributes"

\* the record-create calls for the target object kind
RecordCalls ==
    IF ValidLead THEN PostsTo(RecordEndpointOf(lead_data["object_type"])) ELSE <<>>

\* the attribute-create calls, on any object kind
AttributeCalls ==
    SelectSeq(calls, LAMBDA c :
        /\ c.op = "post"
        /\ Len(c.endpoint) >= 11
        /\ SubSeq(c.endpoint, Len(c.endpoint) - 10, Len(c.endpoint)) = "/attributes")

\* the company-create calls made for a person lead
CompanyCalls ==
    IF ValidLead /\ lead_data["object_type"] = "person"
    THEN PostsTo("/objects/companies/records")
    ELSE <<>>

\* the failures of a record-create call that name a missing attribute, with
\* the slug they name
MissingSlugAnswers ==
    { [resp |-> Response(400, TRUE, [message |-> MissingJobTitle], "400 Client Error"),
       slug |-> "job_title"],
      [resp |-> Response(400, TRUE, [message |-> MissingLinkedinCurly], "400 Client Error"),
       slug |-> "linkedin_url"] }

NamesMissingSlug(resp) == \E a \in MissingSlugAnswers : a.resp = resp

SlugNamedBy(resp) == (CHOOSE a \in MissingSlugAnswers : a.resp = resp).slug

(***************************************************************************)
(* C1: in call_gemini_api, a failure of the primary attempt whose text     *)
(* holds a quota signature, in any letter case, is followed by exactly one *)
(* further attempt, on the fallback model; any other failure of the        *)
(* primary attempt is followed by no attempt and fails at once.            *)
(***************************************************************************)
C1_FallbackExactlyOnQuota ==
    LET g == ExtractCalls
    IN  (Len(g) >= 1 /\ g[1].outcome.kind # "text") =>
          IF g[1].outcome.kind = "error" /\ g[1].outcome.id \in QuotaErrorTexts
          THEN \/ Len(g) = 1 /\ pc = "extract_fallback"
               \/ /\ Len(g) = 2
                  /\ g[1].model = GOOGLE_MODEL
                  /\ g[2].model = GOOGLE_FALLBACK_MODEL
          ELSE /\ Len(g) = 1
               /\ pc = "done"
               /\ raised = GeminiProcessingError(
                    "Processing failed: API request failed: "
                        \o (IF g[1].outcome.kind = "empty"
                            THEN "Empty response from Gemini API"
                            ELSE g[1].outcome.id))

C1_Witness ==
    LET g == ExtractCalls
    IN  /\ Len(g) = 2
        /\ g[1].outcome = [kind |-> "error", id |-> "RATE LIMIT reached"]
        /\ g[2].model = GOOGLE_FALLBACK_MODEL
        /\ pc \in {"parse", "done"}

(***************************************************************************)
(* C2: one extraction makes at most two generation attempts, the primary   *)
(* before the fallback; a failed fallback attempt, also one with a quota   *)
(* text, ends the extraction with no further attempt.                      *)
(***************************************************************************)
C2_AtMostTwoAttempts ==
    LET g == ExtractCalls
    IN  /\ Len(g) <= 2
        /\ Len(g) >= 1 => g[1].model = GOOGLE_MODEL
        /\ Len(g) = 2 => /\ g[2].model = GOOGLE_FALLBACK_MODEL
                         /\ g[1].outcome.kind # "text"
        /\ (Len(g) = 2 /\ g[2].outcome.kind # "text") =>
               /\ pc = "done"
               /\ raised.type = "GeminiProcessingError"

C2_Witness ==
    LET g == ExtractCalls
    IN  /\ Len(g) = 2
        /\ g[2].outcome = [kind |-> "error", id |-> "HTTP 429"]
        /\ pc = "done"

\* a 2xx answer
Succeeded(resp) == resp.status \in 200..299

(***************************************************************************)
(* C3: when the first record-create call fails with status 400 and a       *)
(* message naming a missing attribute slug, create_record makes one        *)
(* attribute-create call for that slug on the target object kind; if that  *)
(* call succeeds it replays the record-create call exactly once with the   *)
(* identical payload; the answer of a successful replay is returned, a     *)
(* failed replay ends in AttioAPIError with no third attempt.              *)
(***************************************************************************)
C3_HealAndReplayOnce ==
    LET R == RecordCalls
        A == AttributeCalls
        n == Len(calls)
    IN  (Len(R) >= 1 /\ NamesMissingSlug(R[1].outcome)) =>
          /\ Len(R) <= 2
          /\ \/ pc = "attribute_create" /\ Len(A) = 0 /\ Len(R) = 1
             \/ /\ Len(A) = 1
                /\ A[1].endpoint = AttributeEndpointOf(lead_data["object_type"])
                /\ A[1].json.data.api_slug = SlugNamedBy(R[1].outcome)
                /\ IF ~Succeeded(A[1].outcome)
                   THEN Len(R) = 1 /\ pc = "done"
                   ELSE \/ pc = "record_retry" /\ Len(R) = 1
                        \/ /\ Len(R) = 2
                           /\ calls[n - 2] = R[1] /\ calls[n - 1] = A[1] /\ calls[n] = R[2]
                           /\ R[2].json = R[1].json
                           /\ pc = "done"
                           /\ IF Succeeded(R[2].outcome)
                              THEN /\ reply.kind = "success"
                                   /\ created_record = R[2].outcome.doc
                                   /\ raised = NoError
                              ELSE /\ reply.kind = "crm_failed"
                                   /\ raised.type = "AttioAPIError"

C3_Witness ==
    LET R == RecordCalls
    IN  /\ Len(R) = 2
        /\ R[1].outcome = Response(400, TRUE, [message |-> MissingJobTitle], "400 Client Error")
        /\ "job_title" \in DOMAIN R[2].json.data.values
        /\ Succeeded(R[2].outcome)
        /\ reply.kind = "success"

(***************************************************************************)
(* C4: one create_record makes at most two record-create calls for the     *)
(* target object kind and at most one attribute-create call, also when the *)
(* replay fails naming the same or another missing slug.                   *)
(***************************************************************************)
C4_AtMostTwoRecordCalls ==
    /\ Len(RecordCalls) <= 2
    /\ Len(AttributeCalls) <= 1
    /\ Len(RecordCalls) = 2 => Len(AttributeCalls) = 1

C4_Witness ==
    LET R == RecordCalls
    IN  /\ Len(R) = 2
        /\ NamesMissingSlug(R[1].outcome)
        /\ NamesMissingSlug(R[2].outcome)
        /\ SlugNamedBy(R[1].outcome) # SlugNamedBy(R[2].outcome)
        /\ Len(AttributeCalls) = 1
        /\ pc = "done"

C6_SearchNeverFails ==
    LET E == EnrichCalls
    IN  Len(E) >= 1 =>
          /\ Len(E) <= 2
          /\ pc \in {"search_fallback", "company_create", "record_create",
                     "attribute_create", "record_retry", "done"}
          /\ pc = "search_fallback" => Len(E) = 1 /\ E[1].outcome.kind = "error"
          /\ pc # "search_fallback" =>
                /\ \/ website_domain = None
                   \/ /\ E[Len(E)].outcome.kind = "text"
                      /\ Contains(website_domain, ".")
                      /\ ~Contains(website_domain, " ")
                /\ E[Len(E)].outcome.kind # "text" => website_domain = None
          /\ pc \notin {"search_fallback", "company_create"} => Len(CompanyCalls) = 1
          /\ raised # NoError => raised.type = "AttioAPIError" /\ Len(RecordCalls) >= 1

C6_Witness ==
    LET E == EnrichCalls
    IN  /\ Len(E) = 2
        /\ E[1].outcome.kind = "error"
        /\ E[2].outcome.kind = "error"
        /\ website_domain = None
        /\ reply.kind = "success"

(***************************************************************************)
(* C7: create_record called with a lead whose object_type is none of       *)
(* person, company, deal, user raises AttioAPIError at once and makes no   *)
(* outbound call.                                                          *)
(***************************************************************************)
C7_UnknownKindNoCall ==
    (HasLead /\ lead_data["object_type"] \notin {"person", "company", "deal", "user"}) =>
        /\ pc \in {"create_record", "done"}
        /\ \A i \in 1..Len(calls) :
              calls[i].op = "generate_content" /\ calls[i].site = "extract"
        /\ pc = "done" =>
              /\ raised.type = "AttioAPIError"
              /\ reply.kind = "crm_failed"
              /\ created_record = EmptyDict

C7_Witness ==
    /\ HasLead
    /\ lead_data["object_type"] = "lead"
    /\ pc = "done"
    /\ raised.type = "AttioAPIError"

(***************************************************************************)
(* C8: extraction fails validation whenever the parsed answer lacks a      *)
(* name, lacks an object_type, or has an object_type outside person,       *)
(* company, deal, user: no LeadData with such an object_type is returned   *)
(* or handed to create_record.  (LeadData declares object_type as a plain  *)
(* str, so the last part does not hold of the code.)                       *)
(***************************************************************************)
C8_UnknownKindRejected ==
    HasLead => /\ lead_data["object_type"] \in {"person", "company", "deal", "user"}
               /\ lead_data["name"] # None

(***************************************************************************)
(* C9: process_lead_message either returns a LeadData or raises            *)
(* GeminiProcessingError: model-service errors, unparseable answers,       *)
(* answers that are no JSON object and validation failures all end in      *)
(* that one error kind.                                                    *)
(***************************************************************************)
C9_OnlyGeminiProcessingError ==
    (Len(ExtractCalls) >= 1 /\ pc \notin {"extract_fallback", "parse"}) =>
        \/ /\ HasLead
           /\ DOMAIN lead_data = LeadFields
           /\ raised.type \in {"", "AttioAPIError"}
        \/ /\ ~HasLead
           /\ pc = "done"
           /\ raised.type = "GeminiProcessingError"
           /\ reply.kind = "extraction_failed"

C9_Witness ==
    LET g == ExtractCalls
    IN  /\ Len(g) >= 1
        /\ g[Len(g)].outcome = [kind |-> "text", id |-> "T_list"]
        /\ pc = "done"
        /\ raised.type = "GeminiProcessingError"

(***************************************************************************)
(* The JSON objects a text holds: the spans from a "{" to a "}" that are   *)
(* one JSON object, and those of them that lie in no other one.            *)
(***************************************************************************)
ObjectSpans(s) ==
    { sp \in (1..Len(s)) \X (1..Len(s)) :
        /\ sp[1] < sp[2]
        /\ s[sp[1]] = "{"
        /\ s[sp[2]] = "}"
        /\ json_loads(SubSeq(s, sp[1], sp[2])).ok }

TopObjectSpans(s) ==
    { sp \in ObjectSpans(s) :
        ~ \E o \in ObjectSpans(s) : o # sp /\ o[1] <= sp[1] /\ sp[2] <= o[2] }

ObjectAt(s, sp) == json_loads(SubSeq(s, sp[1], sp[2])).val

\* the text is one JSON document that is not an object (an array, here)
OtherJsonDocument(s) == json_loads(s).ok /\ json_loads(s).val.t # "dict"

\* parse_gemini_response has returned the object at span sp of the answer
ReturnedObjectAt(sp) ==
    /\ parsed_data.ok
    /\ parsed_data.data = ObjectAt(response_text, sp)

\* the extraction has failed with GeminiProcessingError
ExtractionFailed ==
    /\ ~HasLead
    /\ pc = "done"
    /\ raised.type = "GeminiProcessingError"

(***************************************************************************)
(* C10, as stated: parse_gemini_response returns the object of every       *)
(* answer that holds exactly one balanced JSON object anywhere in          *)
(* surrounding text, also when that text holds "{" or "}"; the extraction  *)
(* fails with GeminiProcessingError on every answer with no JSON object.   *)
(***************************************************************************)
C10_AsStated ==
    pc # "parse" /\ Len(ExtractCalls) >= 1 /\ ExtractCalls[Len(ExtractCalls)].outcome.kind = "text" =>
        LET tops == TopObjectSpans(response_text)
        IN  /\ Cardinality(tops) = 1 => \A sp \in tops : ReturnedObjectAt(sp)
            /\ ObjectSpans(response_text) = {} => ExtractionFailed

(***************************************************************************)
(* C10, amended: parse_gemini_response returns the object of every answer  *)
(* that holds exactly one balanced JSON object, has no "{" before it and   *)
(* no "}" after it, and is not as a whole a JSON document of another kind  *)
(* (an array around the object); the extraction fails with                 *)
(* GeminiProcessingError on every answer with no JSON object.              *)
(***************************************************************************)
C10_ObjectBetweenBraceFreeText ==
    pc # "parse" /\ Len(ExtractCalls) >= 1 /\ ExtractCalls[Len(ExtractCalls)].outcome.kind = "text" =>
        LET s == response_text
            tops == TopObjectSpans(s)
        IN  /\ Cardinality(tops) = 1 =>
                \A sp \in tops :
                    ( /\ \A i \in 1..(sp[1] - 1) : s[i] # "{"
                      /\ \A j \in (sp[2] + 1)..Len(s) : s[j] # "}"
                      /\ ~OtherJsonDocument(s) )
                    => ReturnedObjectAt(sp)
            /\ ObjectSpans(s) = {} => ExtractionFailed

\* the answer  x { "extra": { } }  has been parsed
C10_Witness ==
    /\ response_text = <<"x", "{", "k:", "{", "}", "}">>
    /\ pc = "done"
    /\ parsed_data = [ok |-> TRUE, data |-> PyDict([extra |-> PyDict(EmptyDict)])]

(***************************************************************************)
(* C11: _search_company_website returns the cleaned answer if and only if  *)
(* the cleaned text is not "none", has a "." and has no white-space        *)
(* character of any kind (space, tab, newline), and nothing otherwise.     *)
(* (The code tests for the space character only.)                          *)
(***************************************************************************)
HasNoWhitespace(s) == \A i \in 1..Len(s) : SubSeq(s, i, i) \notin Whitespace

C11_DomainIffNoWhitespace ==
    LET E == EnrichCalls
    IN  ( /\ Len(E) >= 1
          /\ pc \notin {"search_primary", "search_fallback"}
          /\ E[Len(E)].outcome.kind = "text" ) =>
            LET cleaned == clean_website(E[Len(E)].outcome.id)
            IN  website_domain =
                  IF cleaned # "none" /\ Contains(cleaned, ".") /\ HasNoWhitespace(cleaned)
                  THEN cleaned
                  ELSE None

(***************************************************************************)
(* C12: for a person lead with a company, when the website search gave a   *)
(* domain and the company-create call succeeded, the payload of the        *)
(* person record-create call links the company by that domain string,      *)
(* whether or not the company-create answer carries a record identifier.   *)
(* (create_record carries the identifier, not the domain, when the answer  *)
(* has one.)                                                               *)
(***************************************************************************)
C12_LinkedByDomain ==
    LET C == CompanyCalls
        R == RecordCalls
    IN  ( /\ Len(C) = 1
          /\ Succeeded(C[1].outcome)
          /\ website_domain # None
          /\ Len(R) >= 1 ) =>
            /\ "company" \in DOMAIN R[1].json.data.values
            /\ R[1].json.data.values["company"] = website_domain

(***************************************************************************)
(* C13: when the primary attempt fails with a quota error and the fallback *)
(* attempt fails too (with any error, or with an empty answer),            *)
(* call_gemini_api fails with one combined error whose message holds the   *)
(* message of the primary error and the message of the fallback error.     *)
(***************************************************************************)
C13_BothModelsFailed ==
    LET g == ExtractCalls
    IN  (Len(g) = 2 /\ g[2].outcome.kind # "text") =>
          LET primary_text  == g[1].outcome.id
              fallback_text == IF g[2].outcome.kind = "empty"
                               THEN "Empty response from Gemini API"
                               ELSE g[2].outcome.id
          IN  /\ pc = "done"
              /\ raised.type = "GeminiProcessingError"
              /\ Contains(raised.msg, primary_text)
              /\ Contains(raised.msg, fallback_text)
              /\ raised.msg = "Processing failed: Both models failed. Primary: "
                                \o primary_text \o ", Fallback: API request failed: "
                                \o fallback_text
              /\ reply.error = raised.msg

C13_Witness ==
    LET g == ExtractCalls
    IN  /\ Len(g) = 2
        /\ g[1].outcome = [kind |-> "error", id |-> "Resource Exhausted"]
        /\ g[2].outcome = [kind |-> "error", id |-> "Internal error"]
        /\ pc = "done"

(***************************************************************************)
(* C14: when a generation call returns no text, call_gemini_api fails with *)
(* the empty-response error: it returns no empty text, the failure is the  *)
(* error "Empty response from Gemini API" and not the "API request         *)
(* failed" error of a failed model call, and an empty answer on the        *)
(* primary model starts no fallback attempt.  (The error raised inside the *)
(* try block is caught by the function's own except clause and raised      *)
(* again as "API request failed: ...".)                                    *)
(***************************************************************************)
C14_EmptyResponseKind ==
    LET g == ExtractCalls
    IN  (Len(g) >= 1 /\ g[1].outcome.kind = "empty") =>
          /\ Len(g) = 1
          /\ pc = "done"
          /\ raised.type = "GeminiProcessingError"
          /\ Contains(raised.msg, "Empty response from Gemini API")
          /\ ~Contains(raised.msg, "API request failed")

(***************************************************************************)
(* C15: the choice of the model keeps no state between calls: after any    *)
(* earlier calls of call_gemini_api or _search_company_website, also ones  *)
(* that fell back or failed on the fallback model, the first attempt of    *)
(* every new top-level call is made on the primary model.                  *)
(***************************************************************************)
C15_EveryCallStartsOnPrimary ==
    /\ Len(calls) >= 1 => calls[1].model = GOOGLE_MODEL
    /\ Len(calls) = 2 => calls[2].model = GOOGLE_FALLBACK_MODEL
    /\ \A i \in 1..Len(history) : history[i].models[1] = GOOGLE_MODEL

C15_Witness ==
    /\ Len(history) = 2
    /\ history[1] = [site |-> "extract", text |-> FALSE,
                     models |-> <<GOOGLE_MODEL, GOOGLE_FALLBACK_MODEL>>]
    /\ history[2] = [site |-> "enrich", text |-> TRUE,
                     models |-> <<GOOGLE_MODEL, GOOGLE_FALLBACK_MODEL>>]
    /\ Len(calls) = 1
    /\ calls[1].site = "extract"
    /\ calls[1].model = GOOGLE_MODEL

\* the name of the object kind as the failure message spells it
KindTitle(kind) ==
    CASE kind = "person"  -> "Person"
      [] kind = "company" -> "Company"
      [] kind = "deal"    -> "Deal"
      [] kind = "user"    -> "User"

\* the failure create_record reports for the failed record-create call c
WriteFailedFor(c) ==
    AttioAPIError(KindTitle(lead_data["object_type"]) \o " creation failed: "
                    \o (IF c.outcome.json /\ "message" \in DOMAIN c.outcome.doc
                        THEN c.outcome.doc["message"]
                        ELSE c.outcome.err))

(***************************************************************************)
(* C16: when the attribute-create call fails, the record-create call is    *)
(* not made again (exactly one record-create call is made) and the         *)
(* operation fails with AttioAPIError whose reason is the error of the     *)
(* first record-create call.                                               *)
(***************************************************************************)
C16_FailedAttributeNoReplay ==
    LET R == RecordCalls
        A == AttributeCalls
    IN  (Len(A) >= 1 /\ ~Succeeded(A[1].outcome)) =>
          /\ Len(A) = 1
          /\ Len(R) = 1
          /\ pc = "done"
          /\ created_record = EmptyDict
          /\ raised = WriteFailedFor(R[1])

C16_Witness ==
    LET R == RecordCalls
        A == AttributeCalls
    IN  /\ Len(R) = 1
        /\ R[1].outcome.doc = [message |-> MissingJobTitle]
        /\ Len(A) = 1
        /\ A[1].outcome.status = 409
        /\ pc = "done"
        /\ raised.msg = "Person creation failed: " \o MissingJobTitle

(***************************************************************************)
(* C17: when the attribute-create call succeeds and the record-create call *)
(* made again fails, the operation fails with AttioAPIError whose reason   *)
(* is the error of that second call, not the error of the first.           *)
(***************************************************************************)
C17_ReplayErrorReported ==
    LET R == RecordCalls
        A == AttributeCalls
    IN  ( /\ Len(A) = 1
          /\ Succeeded(A[1].outcome)
          /\ Len(R) = 2
          /\ ~Succeeded(R[2].outcome) ) =>
            /\ pc = "done"
            /\ raised = WriteFailedFor(R[2])

\* an answer of the first record-create call that starts the healing as the
\* claim words it: status 400, a JSON body, a message of the pattern
StartsHealing(resp) ==
    /\ resp.status = 400
    /\ resp.json
    /\ "message" \in DOMAIN resp.doc
    /\ resp.doc["message"] \in {MissingJobTitle, MissingLinkedinCurly}

(***************************************************************************)
(* C18: an attribute-create call and a second record-create call are made  *)
(* only if the first record-create call failed with status 400 and a JSON  *)
(* body whose message matches the missing-attribute pattern.  After a      *)
(* success, a transport error or timeout, a failure of another status with *)
(* the same message, a 400 with another message or a 400 whose body is not *)
(* JSON, exactly one record-create call and no attribute-create call are   *)
(* made, and every such failure ends in AttioAPIError.                     *)
(***************************************************************************)
C18_HealingOnlyOn400Pattern ==
    LET R == RecordCalls
        A == AttributeCalls
    IN  /\ (Len(A) >= 1 \/ Len(R) >= 2) =>
              (Len(R) >= 1 /\ StartsHealing(R[1].outcome))
        /\ (Len(R) >= 1 /\ ~StartsHealing(R[1].outcome)) =>
              /\ Len(R) = 1
              /\ Len(A) = 0
              /\ pc = "done"
              /\ IF Succeeded(R[1].outcome)
                 THEN raised = NoError /\ created_record = R[1].outcome.doc
                 ELSE raised = WriteFailedFor(R[1]) /\ created_record = EmptyDict

C18_Witness ==
    LET R == RecordCalls
    IN  /\ Len(R) = 1
        /\ R[1].outcome.status = 404
        /\ R[1].outcome.doc = [message |-> MissingJobTitle]
        /\ AttributeCalls = <<>>
        /\ pc = "done"
        /\ raised.msg = "Person creation failed: " \o MissingJobTitle

(***************************************************************************)
(* C19: the payload of the record-create call of a deal lead holds the     *)
(* value, as an amount in USD equal to deal_value, when the lead has a     *)
(* deal_value, and the stage when the lead has a deal_stage.               *)
(***************************************************************************)
C19_DealValueAndStageSent ==
    LET R == RecordCalls
    IN  (ValidLead /\ lead_data["object_type"] = "deal" /\ Len(R) >= 1) =>
          LET values == R[1].json.data.values
          IN  /\ lead_data["deal_value"] # None =>
                    /\ "value" \in DOMAIN values
                    /\ values["value"] = [currency |-> "USD", value |-> 50000]
              /\ lead_data["deal_stage"] # None =>
                    /\ "stage" \in DOMAIN values
                    /\ values["stage"] = lead_data["deal_stage"]

\* a field of the lead that is present: neither absent nor the empty string
Present(f) == lead_data[f] # None /\ lead_data[f] # ""

\* the optional attributes the mapping of the kind lists
MappedAttributes(kind) ==
    CASE kind = "person"  -> {"email_addresses", "phone_numbers", "job_title", "location",
                              "linkedin_url", "description"}
      [] kind = "company" -> {"locations", "domains", "description"}
      [] kind = "user"    -> {"email_address", "job_title", "description"}
      [] kind = "deal"    -> {}

\* is the source of the attribute present in the lead
SourcePresent(kind, attr) ==
    CASE attr \in {"email_addresses", "email_address", "domains"} -> Present("email")
      [] attr = "phone_numbers" -> Present("phone")
      [] attr = "job_title"     -> Present("job_title")
      [] attr = "linkedin_url"  -> Present("linkedin_url")
      [] attr \in {"location", "locations"} -> Present("location")
      [] attr = "description" ->
            IF kind = "company"
            THEN \E f \in {"company", "job_title", "email", "phone", "linkedin_url", "notes"} :
                    Present(f)
            ELSE Present("notes")

TitleCharAt(slug, i) ==
    LET c    == SubSeq(slug, i, i)
        prev == IF i = 1 THEN "_" ELSE SubSeq(slug, i - 1, i - 1)
    IN  IF c = "_" THEN " "
        ELSE IF c \in {"a", "A"} THEN (IF prev \in {"a", "A", "b", "B"} THEN "a" ELSE "A")
        ELSE IF c \in {"b", "B"} THEN (IF prev \in {"a", "A", "b", "B"} THEN "b" ELSE "B")
        ELSE c

IsDefaultTitle(t, slug) ==
    /\ Len(t) = Len(slug)
    /\ \A i \in 1..Len(slug) : SubSeq(t, i, i) = TitleCharAt(slug, i)

TableTitle(slug) ==
    CASE slug = "linkedin_url" -> "LinkedIn URL"
      [] slug = "job_title"    -> "Job Title"
      [] slug = "location"     -> "Location"
      [] slug = "description"  -> "Description"
      [] slug = "companies"    -> "Companies"

(***************************************************************************)
(* C21: the attribute _create_attribute sends for a missing slug is, for   *)
(* linkedin_url, job_title, location and description, a single-valued text *)
(* field with the title of the table; for companies a multi-valued         *)
(* reference field whose target is companies; for any other slug a         *)
(* single-valued text field whose title is the slug with spaces for the    *)
(* underscores and every word capitalized.  A reference target is set      *)
(* exactly when the type is reference, and an unknown slug never makes the *)
(* construction fail.                                                      *)
(***************************************************************************)
C21_AttributeDefinition ==
    LET A == AttributeCalls
    IN  Len(A) >= 1 =>
          LET slug == missing_attribute
              def  == A[1].json.data
          IN  /\ def.api_slug = slug
              /\ IF slug \in {"linkedin_url", "job_title", "location", "description"}
                 THEN /\ def.type = "text"
                      /\ def.is_multiselect = FALSE
                      /\ def.title = TableTitle(slug)
                 ELSE IF slug = "companies"
                 THEN /\ def.type = "reference"
                      /\ def.is_multiselect = TRUE
                      /\ def.title = TableTitle(slug)
                      /\ def.config = [reference |-> [target_object |-> "companies"]]
                 ELSE /\ def.type = "text"
                      /\ def.is_multiselect = FALSE
                      /\ IsDefaultTitle(def.title, slug)
              /\ (def.config # EmptyDict) <=> (def.type = "reference")

C21_Witness ==
    LET A == AttributeCalls
    IN  /\ Len(A) = 1
        /\ missing_attribute = "a_B"
        /\ A[1].json.data.title = "A B"
        /\ A[1].json.data.type = "text"
        /\ A[1].json.data.config = EmptyDict

\* the step of the pipeline the i-th outbound call belongs to
StepOf(i) ==
    LET c == calls[i]
    IN  IF c.op = "generate_content"
        THEN (IF c.site = "extract" THEN 1 ELSE 2)
        ELSE IF c.endpoint = AttributeEndpointOf(lead_data["object_type"]) THEN 5
        ELSE IF c.endpoint = RecordEndpointOf(lead_data["object_type"])
             THEN (IF \E j \in 1..(i - 1) : calls[j].op = "post" /\ calls[j].endpoint = c.endpoint
                   THEN 6 ELSE 4)
        ELSE 3

(***************************************************************************)
(* C22: within one message the outbound calls are made in the order        *)
(* extraction model calls, enrichment model calls, company-create,         *)
(* record-create, attribute-create, record-create again, each with its     *)
(* outcome before the next is made; the record of a person that names a    *)
(* company is never created before the company-create call has ended, and  *)
(* no enrichment or CRM call is made before the extraction has returned a  *)
(* lead.                                                                   *)
(***************************************************************************)
C22_CallsInFixedOrder ==
    /\ \A i \in 1..Len(calls) :
          /\ calls[i].op = "generate_content" => calls[i].outcome.kind \in {"text", "empty", "error"}
          /\ StepOf(i) >= 2 => /\ ValidLead
                               /\ i > 1
                               /\ StepOf(i - 1) = 1 => calls[i - 1].outcome.kind = "text"
    /\ \A i \in 1..Len(calls) : \A j \in (i + 1)..Len(calls) :
          /\ StepOf(i) <= StepOf(j)
          /\ StepOf(i) >= 3 => StepOf(i) < StepOf(j)
    /\ \A i \in 1..Len(calls) :
          (StepOf(i) = 4 /\ lead_data["object_type"] = "person" /\ Truthy(lead_data["company"])) =>
              (i > 1 /\ StepOf(i - 1) = 3)

C22_Witness ==
    /\ Len(calls) = 8
    /\ [i \in 1..8 |-> StepOf(i)] = <<1, 1, 2, 2, 3, 4, 5, 6>>
    /\ pc = "done"

\* the calls to the CRM made so far
CrmCalls == SelectSeq(calls, LAMBDA c : c.op = "post")

(***************************************************************************)
(* C23: in handle_lead_mention, create_record runs only after              *)
(* process_lead_message returned a lead.  When the extraction fails no CRM *)
(* call is made and the reply is the one that asks to rephrase; when       *)
(* create_record fails with AttioAPIError the reply is the one that says   *)
(* saving failed and shows the extracted type, name and company; the two   *)
(* are never taken for each other, and the success reply is sent only when *)
(* create_record returned a record.                                        *)
(***************************************************************************)
C23_RepliesTellFailuresApart ==
    /\ (Len(CrmCalls) >= 1 \/ Len(EnrichCalls) >= 1 \/ DOMAIN data # {}) =>
          /\ HasLead
          /\ Len(ExtractCalls) >= 1
          /\ ExtractCalls[Len(ExtractCalls)].outcome.kind = "text"
    /\ (pc = "done" /\ raised.type = "GeminiProcessingError") =>
          /\ ~HasLead
          /\ CrmCalls = <<>>
          /\ EnrichCalls = <<>>
          /\ reply.kind = "extraction_failed"
          /\ reply.error = raised.msg
    /\ (pc = "done" /\ raised.type = "AttioAPIError") =>
          /\ HasLead
          /\ created_record = EmptyDict
          /\ reply.kind = "crm_failed"
          /\ reply.error = raised.msg
          /\ reply.shown = << lead_data["object_type"], lead_data["name"],
                              IF lead_data["company"] \in {None, ""} THEN "N/A"
                              ELSE lead_data["company"] >>
    /\ reply.kind = "extraction_failed" => raised.type = "GeminiProcessingError"
    /\ reply.kind = "crm_failed" => raised.type = "AttioAPIError"
    /\ reply.kind = "success" =>
          /\ raised = NoError
          /\ Len(RecordCalls) >= 1
          /\ Succeeded(RecordCalls[Len(RecordCalls)].outcome)
          /\ created_record = RecordCalls[Len(RecordCalls)].outcome.doc

C23_Witness ==
    /\ pc = "done"
    /\ Len(RecordCalls) = 1
    /\ RecordCalls[1].outcome = Timeout
    /\ reply = [kind |-> "crm_failed",
                error |-> "Person creation failed: Read timed out. (read timeout=15)",
                shown |-> <<"person", "Ann", "Acme">>]

\* the lead the extraction answers of the call log cs give to a pipeline
\* that runs alone: the validated answer of the last extraction call
LeadAlone(cs) ==
    LET E == SelectSeq(cs, LAMBDA c : c.op = "generate_content" /\ c.site = "extract")
    IN  IF Len(E) >= 1 /\ E[Len(E)].outcome.kind = "text"
        THEN LET r == process_response(ExtractText(E[Len(E)].outcome.id))
             IN  IF r.ok THEN r.lead ELSE EmptyDict
        ELSE EmptyDict

\* the domain the enrichment answers of cs give
DomainAlone(cs) ==
    LET S == SelectSeq(cs, LAMBDA c : c.op = "generate_content" /\ c.site = "enrich")
    IN  IF Len(S) >= 1 /\ S[Len(S)].outcome.kind = "text"
        THEN search_result(S[Len(S)].outcome.id)
        ELSE None

\* the payload of the record-create calls the answers of cs give
PayloadAlone(cs) ==
    LET lead == LeadAlone(cs)
        d    == lead_data_to_dict(lead)
        C    == SelectSeq(cs, LAMBDA c : c.op = "post" /\ lead["object_type"] = "person"
                                          /\ c.endpoint = "/objects/companies/records")
    IN  build_attio_payload(
            IF Len(C) >= 1 THEN link_company(d, C[1].outcome, DomainAlone(cs)) ELSE d,
            lead["object_type"])

\* the state p of a pipeline is the one its own call log gives when the
\* pipeline runs alone
AsAlone(p) ==
    LET lead == LeadAlone(p.calls)
        P    == SelectSeq(p.calls, LAMBDA c : c.op = "post")
        R    == IF DOMAIN lead # {}
                THEN SelectSeq(P, LAMBDA c : c.endpoint = RecordEndpointOf(lead["object_type"]))
                ELSE <<>>
    IN  /\ p.pc \notin {"mention", "extract_primary", "extract_fallback", "parse"} =>
              p.lead_data = lead
        /\ Len(P) >= 1 => DOMAIN lead # {}
        /\ \A i \in 1..Len(R) : R[i].json = PayloadAlone(p.calls)
        /\ p.pc = "done" =>
              IF Len(R) >= 1
              THEN IF Succeeded(R[Len(R)].outcome)
                   THEN /\ p.created_record = R[Len(R)].outcome.doc
                        /\ p.reply.kind = "success"
                   ELSE /\ p.raised.type = "AttioAPIError"
                        /\ p.reply.kind = "crm_failed"
                        /\ p.reply.shown[2] = lead["name"]
              ELSE /\ p.created_record = EmptyDict
                   /\ p.reply.kind \in {"need_info", "extraction_failed"}

(***************************************************************************)
(* C24: when the pipelines of two messages run on one event loop, under    *)
(* every interleaving of their steps the outcome of each (the lead, the    *)
(* payloads sent, the created record or the kind of error) is the outcome  *)
(* it has when it runs alone against the same answers: no pipeline reads   *)
(* or writes a variable of the other.                                      *)
(***************************************************************************)
C24_PipelinesIndependent ==
    /\ AsAlone(Running)
    /\ AsAlone(suspended)

C24_Witness ==
    /\ suspended.pc = "create_record"
    /\ suspended.lead_data = LeadAlone(suspended.calls)
    /\ suspended.lead_data["object_type"] = "company"
    /\ pc = "done"
    /\ Len(calls) = 6
    /\ lead_data["object_type"] = "person"
    /\ payload = PayloadAlone(calls)
    /\ reply.kind = "success"

\* a required value the environment did not give
MissingValue == \E var \in {"DISCORD_BOT_TOKEN", "GOOGLE_API_KEY", "ATTIO_API_KEY"} :
                    config[var] \in {None, ""}

(***************************************************************************)
(* C25: when a required configuration value (the token of the bot, the key *)
(* of the model service, the key of the CRM) is missing, the start ends    *)
(* before the bot connects and no pipeline of a message ever runs; a       *)
(* missing value never shows as an error raised while a message is         *)
(* handled.                                                                *)
(***************************************************************************)
C25_MissingConfigStopsStartup ==
    /\ MissingValue =>
          /\ pc \in {"main", "exited"}
          /\ calls = <<>>
          /\ lead_data = EmptyDict
          /\ raised = NoError
          /\ reply = NoReply
    /\ raised.msg # "ATTIO_API_KEY not configured"
    /\ pc \notin {"main", "exited"} => config = Configured

C25_Witness ==
    /\ pc = "exited"
    /\ config["DISCORD_BOT_TOKEN"] = "key"
    /\ config["GOOGLE_API_KEY"] = "key"
    /\ config["ATTIO_API_KEY"] = ""

\* the paths of the timeouts of the calls
C26_TimeoutPaths ==
    /\ (Len(RecordCalls) >= 1 /\ RecordCalls[1].outcome = Timeout) =>
          /\ AttributeCalls = <<>>
          /\ pc = "done"
          /\ raised.type = "AttioAPIError"
    /\ (Len(CompanyCalls) >= 1 /\ CompanyCalls[1].outcome = Timeout) =>
          /\ pc \in {"record_create", "attribute_create", "record_retry", "done"}
          /\ Len(RecordCalls) = 0 => raised = NoError
    /\ (Len(ExtractCalls) >= 1
          /\ ExtractCalls[1].outcome = [kind |-> "error", id |-> "Read timed out"]) =>
          /\ Len(ExtractCalls) = 1
          /\ pc = "done"
          /\ raised.type = "GeminiProcessingError"

(***************************************************************************)
(* C26: every outbound call of the pipeline (the extraction and the        *)
(* enrichment model calls, company-create, record-create,                  *)
(* attribute-create) is made with a fixed deadline, and a timeout of a     *)
(* call takes the path of any other transport error of that call: a        *)
(* record-create timeout ends in AttioAPIError with no attribute-create, a *)
(* company-create timeout is absorbed, a timeout of a model call is a      *)
(* failure without a quota text.                                           *)
(***************************************************************************)
C26_EveryCallHasDeadline ==
    /\ \A i \in 1..Len(calls) : calls[i].timeout.given
    /\ C26_TimeoutPaths

\* the PATCH calls made so far
PatchCalls == SelectSeq(calls, LAMBDA c : c.op = "patch")

(***************************************************************************)
(* C27: _link_person_to_company sends the company relation by domain       *)
(* whenever a domain is given, also when a record identifier is given too; *)
(* it sends the record reference only when no domain is given, makes no    *)
(* PATCH call when neither is given, and never raises a failed PATCH.      *)
(***************************************************************************)
C27_LinkPrefersDomain ==
    pc = "linked" =>
       LET domain == data["company_domain"]
           id     == data["company_record_id"]
       IN  /\ raised = NoError
           /\ IF domain \notin {None, ""}
              THEN /\ Len(PatchCalls) = 1
                   /\ PatchCalls[1].json.data.values.companies = domain
              ELSE IF id \notin {None, ""}
              THEN /\ Len(PatchCalls) = 1
                   /\ PatchCalls[1].json.data.values.companies =
                         <<[target_object |-> "companies", target_record_id |-> id]>>
              ELSE PatchCalls = <<>>

FailedCall(i) ==
    IF calls[i].op = "generate_content"
    THEN calls[i].outcome.kind # "text"
    ELSE calls[i].outcome.status = 0 \/ calls[i].outcome.status >= 400

(***************************************************************************)
(* C29: create_record returns a record exactly when a record-create call   *)
(* for the kind of the lead succeeded, the first attempt or the one made   *)
(* again, and what it returns is the answer of that call; when the last    *)
(* record-create attempt failed it raises AttioAPIError.  The only         *)
(* failures that do not reach the caller are those of the website search   *)
(* and of the company-create call.                                         *)
(***************************************************************************)
C29_ReturnsIffRecordCreated ==
    LET R == RecordCalls
    IN  /\ (pc = "done" /\ Len(R) >= 1) =>
              IF Succeeded(R[Len(R)].outcome)
              THEN /\ created_record = R[Len(R)].outcome.doc
                   /\ raised = NoError
                   /\ reply.kind = "success"
              ELSE /\ created_record = EmptyDict
                   /\ raised.type = "AttioAPIError"
        /\ created_record # EmptyDict =>
              /\ Len(R) >= 1
              /\ Succeeded(R[Len(R)].outcome)
        /\ (pc = "done" /\ raised = NoError /\ Len(R) >= 1) =>
              \A i \in 1..Len(calls) :
                  FailedCall(i) =>
                      \/ StepOf(i) \in {1, 2, 3}
                      \/ /\ StepOf(i) = 4
                         /\ StartsHealing(calls[i].outcome)
                         /\ Len(AttributeCalls) = 1
                         /\ Succeeded(AttributeCalls[1].outcome)
                         /\ Len(R) = 2

C29_Witness ==
    LET R == RecordCalls
    IN  /\ pc = "done"
        /\ Len(EnrichCalls) = 1
        /\ EnrichCalls[1].outcome = [kind |-> "error", id |-> "Internal error"]
        /\ Len(CompanyCalls) = 1
        /\ CompanyCalls[1].outcome = Timeout
        /\ Len(R) = 2
        /\ R[1].outcome.doc = [message |-> MissingJobTitle]
        /\ created_record = R[2].outcome.doc
        /\ created_record = [id |-> [record_id |-> "rec_1"]]

\* the four things a model call can do, as the claim names them
OutcomeClass(o) ==
    CASE o.kind = "text" -> "text"
      [] o.kind = "empty" -> "empty text"
      [] o.kind = "error" /\ is_quota_error(o.id) -> "quota error"
      [] OTHER -> "other error"

\* the models one top-level call tries, given what each attempt did: the
\* primary model, then the fallback model when the primary attempt ended
\* in a quota error
TierAttempts(classes, n) ==
    IF n = 0 THEN <<>>
    ELSE IF n = 1 THEN <<GOOGLE_MODEL>>
    ELSE IF n = 2 /\ classes[1] = "quota error"
         THEN <<GOOGLE_MODEL, GOOGLE_FALLBACK_MODEL>>
         ELSE <<"no such attempt">>

\* the top-level call that runs has returned or raised
CallEnded == pc \in {"parse", "done", "company_create"} /\ Len(calls) >= 1

(***************************************************************************)
(* C30: for every sequence of outcomes of the model service (text, empty   *)
(* text, quota error, other error) _search_company_website makes the same  *)
(* attempts as call_gemini_api: the primary model first, the fallback      *)
(* model only after a quota error of the primary attempt and then always,  *)
(* and never more than two attempts.  The two differ only in what a call   *)
(* without a text ends with: the search returns no domain, also for an     *)
(* empty text, and call_gemini_api raises.                                 *)
(***************************************************************************)
C30_SameTierAttempts ==
    LET classes == [i \in 1..Len(calls) |-> OutcomeClass(calls[i].outcome)]
        last == calls[Len(calls)].outcome
    IN  /\ Len(calls) <= 2
        /\ [i \in 1..Len(calls) |-> calls[i].model] = TierAttempts(classes, Len(calls))
        /\ (Len(calls) = 1 /\ classes[1] = "quota error") =>
              pc \in {"extract_fallback", "search_fallback"}
        /\ pc \in {"extract_fallback", "search_fallback"} =>
              Len(calls) = 1 /\ classes[1] = "quota error"
        /\ (CallEnded /\ calls[1].site = "enrich") =>
              /\ raised = NoError
              /\ pc = "company_create"
              /\ last.kind # "text" => website_domain = None
        /\ (CallEnded /\ calls[1].site = "extract") =>
              IF last.kind = "text"
              THEN pc = "parse" /\ raised = NoError
              ELSE pc = "done" /\ raised.type = "GeminiProcessingError"

C30_Witness ==
    /\ Len(history) = 1
    /\ history[1] = [site |-> "extract", text |-> FALSE,
                     models |-> <<GOOGLE_MODEL, GOOGLE_FALLBACK_MODEL>>]
    /\ pc = "company_create"
    /\ Len(calls) = 2
    /\ calls[1].site = "enrich"
    /\ calls[1].outcome = [kind |-> "error", id |-> "Token Limit Exceeded"]
    /\ calls[2].model = GOOGLE_FALLBACK_MODEL
    /\ calls[2].outcome = [kind |-> "empty", id |-> ""]
    /\ website_domain = None
    /\ raised = NoError

\* the top-level id.record_id of a company-create answer, None without one
AnsweredRecordId(resp) ==
    IF "id" \in DOMAIN resp.doc THEN Get(resp.doc["id"], "record_id") ELSE None

\* the company link of the person payload is exactly link (None: no link)
CarriesLink(values, link) ==
    IF link = None
    THEN "company" \notin DOMAIN values
    ELSE "company" \in DOMAIN values /\ values["company"] = link

\* C31 for the company-create answers that satisfy want
LinkCarriedWhen(want(_)) ==
    LET C == CompanyCalls
        R == RecordCalls
    IN  (Len(C) = 1 /\ Succeeded(C[1].outcome) /\ want(C[1].outcome)) =>
          LET record_id == AnsweredRecordId(C[1].outcome)
          IN  /\ ~("company_record_id" \in DOMAIN data /\ "company_domain" \in DOMAIN data)
              /\ IF Truthy(record_id)
                 THEN /\ Get(data, "company_record_id") = record_id
                      /\ "company_domain" \notin DOMAIN data
                 ELSE IF Truthy(website_domain)
                 THEN /\ Get(data, "company_domain") = website_domain
                      /\ "company_record_id" \notin DOMAIN data
                 ELSE /\ "company_record_id" \notin DOMAIN data
                      /\ "company_domain" \notin DOMAIN data
              /\ Len(R) >= 1 =>
                    IF Truthy(record_id)
                    THEN R[1].json.data.values["company"] =
                            <<[target_object |-> "companies", target_record_id |-> record_id]>>
                    ELSE IF Truthy(website_domain)
                    THEN CarriesLink(R[1].json.data.values, website_domain)
                    ELSE CarriesLink(R[1].json.data.values, None)

\* the claim of C31 for the answers whose body is not the empty object
C31_LinkOfNonEmptyAnswer == LinkCarriedWhen(LAMBDA resp : resp.doc # EmptyDict)

(***************************************************************************)
(* C31: after a successful company-create call create_record carries       *)
(* exactly one company link into the person payload: the record identifier *)
(* of the answer when it has one, otherwise the domain the website search  *)
(* gave when it gave one, otherwise none; never both.  (An answer whose     *)
(* body is the empty object is taken for a failed call: the domain is not  *)
(* carried.)                                                               *)
(***************************************************************************)
C31_OneCompanyLink == LinkCarriedWhen(LAMBDA resp : TRUE)

\* create_record is past its company step: the record-create call is next
\* or was made
PastCompanyStep ==
    /\ ValidLead
    /\ \/ pc \in {"record_create", "attribute_create", "record_retry"}
       \/ pc = "done" /\ Len(RecordCalls) >= 1

\* the lead is a person and names a company
PersonWithCompany ==
    ValidLead /\ lead_data["object_type"] = "person" /\ Truthy(Get(lead_data, "company"))

\* the POSTs made so far
Posts == SelectSeq(calls, LAMBDA c : c.op = "post")

(***************************************************************************)
(* C32: create_record makes the website search and a company-create call   *)
(* exactly for a person lead that names a company, and then makes exactly  *)
(* one company-create call whatever the search gave (a domain, nothing, a  *)
(* failure), which carries the domain exactly when one was found.  For     *)
(* company, deal and user leads and for person leads without a company it  *)
(* makes neither, also when the record-create call is made again after an  *)
(* attribute was created.                                                  *)
(***************************************************************************)
C32_CompanyStepOnlyForPersonWithCompany ==
    /\ Len(EnrichCalls) >= 1 => PersonWithCompany
    /\ PastCompanyStep =>
          IF PersonWithCompany
          THEN LET C == PostsTo("/objects/companies/records")
               IN  /\ Len(EnrichCalls) \in {1, 2}
                   /\ Len(C) = 1
                   /\ C[1].json.data.values["name"] = lead_data["company"]
                   /\ IF website_domain = None
                      THEN "domains" \notin DOMAIN C[1].json.data.values
                      ELSE C[1].json.data.values["domains"] = <<[domain |-> website_domain]>>
                   /\ Len(Posts) = 1 + Len(RecordCalls) + Len(AttributeCalls)
          ELSE /\ Len(EnrichCalls) = 0
               /\ Len(Posts) = Len(RecordCalls) + Len(AttributeCalls)
               /\ \A i \in 1..Len(RecordCalls) : RecordCalls[i].json = payload
    /\ Len(RecordCalls) <= 2
    /\ Len(AttributeCalls) <= 1

C32_Witness ==
    /\ pc = "done"
    /\ PersonWithCompany
    /\ Len(EnrichCalls) = 1
    /\ EnrichCalls[1].outcome = [kind |-> "error", id |-> "Internal error"]
    /\ Len(PostsTo("/objects/companies/records")) = 1
    /\ "domains" \notin DOMAIN PostsTo("/objects/companies/records")[1].json.data.values
    /\ Len(AttributeCalls) = 1
    /\ Len(RecordCalls) = 2
    /\ Len(Posts) = 4

\* a deal lead that names a company, made again after an attribute was created
C32_WitnessDeal ==
    /\ pc = "done"
    /\ ValidLead
    /\ lead_data["object_type"] = "deal"
    /\ Truthy(Get(lead_data, "company"))
    /\ Len(RecordCalls) = 2
    /\ Len(EnrichCalls) = 0
    /\ Len(Posts) = 3

StartsWith(s, prefix) == Len(s) >= Len(prefix) /\ SubSeq(s, 1, Len(prefix)) = prefix

\* s without the prefixes 'https://', 'http://' and 'www.' it starts with
RECURSIVE StripPrefixes(_)
StripPrefixes(s) ==
    IF StartsWith(s, "https://") THEN StripPrefixes(SubSeq(s, 9, Len(s)))
    ELSE IF StartsWith(s, "http://") THEN StripPrefixes(SubSeq(s, 8, Len(s)))
    ELSE IF StartsWith(s, "www.") THEN StripPrefixes(SubSeq(s, 5, Len(s)))
    ELSE s

\* the cleaning as C33 states it: trim, lower-case, the prefixes off the
\* start, the slashes off the end
PrefixClean(text) == rstrip(StripPrefixes(lower(strip(text, Whitespace))), {"/"})

\* the website search has returned and its last attempt gave the text it
\* returned on
SearchEndedOnText ==
    /\ pc = "company_create"
    /\ Len(EnrichCalls) >= 1
    /\ EnrichCalls[Len(EnrichCalls)].outcome.kind = "text"

LastSearchText == EnrichCalls[Len(EnrichCalls)].outcome.id

\* the value returned for a text cleaned to website
ValidatedDomain(website) ==
    IF website # "none" /\ Contains(website, ".") /\ ~Contains(website, " ")
    THEN website
    ELSE None

\* the cleaned text has none of the prefixes inside and no slash in front
PlainAfterPrefix(text) ==
    LET rest == StripPrefixes(lower(strip(text, Whitespace)))
    IN  /\ ~Contains(rest, "https://")
        /\ ~Contains(rest, "http://")
        /\ ~Contains(rest, "www.")
        /\ ~StartsWith(rest, "/")

\* the claim of C33 for the texts that have the prefixes only in front
C33_CleansPrefixedTexts ==
    (SearchEndedOnText /\ PlainAfterPrefix(LastSearchText)) =>
        website_domain = ValidatedDomain(PrefixClean(LastSearchText))

\* the example of the claim
C33_ExampleCleaned ==
    (SearchEndedOnText /\ LastSearchText = "https://www.Example.com/") =>
        website_domain = "example.com"

(***************************************************************************)
(* C33: the cleaning of the website search removes 'https://', 'http://'   *)
(* and 'www.' only at the start of the trimmed, lower-cased text and '/'   *)
(* only at its end; an occurrence inside the text is left as it is.  (The  *)
(* code removes every occurrence of the three, and the slashes at both     *)
(* ends.)                                                                  *)
(***************************************************************************)
C33_CleansOnlyPrefixAndEnd ==
    SearchEndedOnText =>
        website_domain = ValidatedDomain(PrefixClean(LastSearchText))

EndsWith(s, suffix) ==
    Len(s) >= Len(suffix) /\ SubSeq(s, Len(s) - Len(suffix) + 1, Len(s)) = suffix

\* what the calls made so far have created in the CRM: the successful POSTs,
\* as endpoint and body
CreatedInCrm ==
    { [endpoint |-> calls[i].endpoint, json |-> calls[i].json] :
        i \in { k \in 1..Len(calls) : calls[k].op = "post" /\ Succeeded(calls[k].outcome) } }

(***************************************************************************)
(* C34: create_record undoes nothing when it fails: every outbound call is *)
(* a model call or a POST that creates a record or an attribute, never a   *)
(* delete or an update, so when create_record ends in AttioAPIError the    *)
(* company created by its company-create call and the attribute created    *)
(* by its attribute-create call are still in the CRM.                      *)
(***************************************************************************)
C34_NothingUndoneOnFailure ==
    /\ \A i \in 1..Len(calls) :
          /\ calls[i].op \in {"generate_content", "post"}
          /\ calls[i].op = "post" =>
                EndsWith(calls[i].endpoint, "/records") \/ EndsWith(calls[i].endpoint, "/attributes")
    /\ (pc = "done" /\ raised # NoError /\ raised.type = "AttioAPIError") =>
          /\ created_record = EmptyDict
          /\ \A i \in 1..Len(CompanyCalls) :
                Succeeded(CompanyCalls[i].outcome) =>
                    [endpoint |-> "/objects/companies/records",
                     json |-> CompanyCalls[i].json] \in CreatedInCrm
          /\ \A i \in 1..Len(AttributeCalls) :
                Succeeded(AttributeCalls[i].outcome) =>
                    /\ [endpoint |-> AttributeCalls[i].endpoint,
                        json |-> AttributeCalls[i].json] \in CreatedInCrm
                    /\ calls[Len(calls)] = RecordCalls[2]
                    /\ ~Succeeded(RecordCalls[2].outcome)

C34_Witness ==
    /\ pc = "done"
    /\ raised # NoError
    /\ raised.type = "AttioAPIError"
    /\ Len(CompanyCalls) = 1
    /\ CompanyCalls[1].outcome.doc = [id |-> [record_id |-> "comp_1"]]
    /\ Len(AttributeCalls) = 1
    /\ Succeeded(AttributeCalls[1].outcome)
    /\ Len(RecordCalls) = 2
    /\ RecordCalls[2].outcome = Timeout
    /\ Cardinality(CreatedInCrm) = 2

\* the numbers of outbound calls of one message are within their limits
WithinCallLimits ==
    /\ Len(ExtractCalls) <= 2
    /\ Len(EnrichCalls) <= 2
    /\ Len(PostsTo("/objects/companies/records")) - Len(SelectSeq(RecordCalls,
            LAMBDA c : c.endpoint = "/objects/companies/records")) <= 1
    /\ Len(RecordCalls) <= 2
    /\ Len(AttributeCalls) <= 1
    /\ Len(calls) <= 8
    /\ Len(calls) = Len(ExtractCalls) + Len(EnrichCalls) + Len(Posts)

\* the pipeline has ended: in a created record, or in a failure of the
\* extraction or of the CRM write
PipelineEnded ==
    /\ pc = "done"
    /\ \/ raised = NoError /\ created_record # EmptyDict /\ reply.kind = "success"
       \/ raised # NoError /\ raised.type \in {"GeminiProcessingError", "AttioAPIError"}
                           /\ created_record = EmptyDict

(***************************************************************************)
(* C35: when every outbound call returns or fails, the pipeline of a       *)
(* message always ends, in a created record or in a failure of the         *)
(* extraction or of the CRM write, after at most 2 model calls of the      *)
(* extraction, 2 model calls of the website search, 1 company-create call, *)
(* 2 record-create calls and 1 attribute-create call: at most 8 outbound   *)
(* calls.  (The pipeline is that of a message with content: a mention      *)
(* without content is answered by handle_lead_mention before the           *)
(* extraction, with no outbound call.)                                     *)
(***************************************************************************)
C35_TerminatesWithinEightCalls ==
    /\ [](WithinCallLimits /\ ((pc = "done" /\ reply.kind # "need_info") => PipelineEnded))
    /\ (pc = "extract_primary") ~> PipelineEnded
    /\ <>(pc = "done")

\* the safety part of C35, for the specification with every outcome (Spec)
C35_LimitsWithEveryOutcome ==
    /\ WithinCallLimits
    /\ (pc = "done" /\ reply.kind # "need_info") => PipelineEnded

C35_Witness ==
    /\ PipelineEnded
    /\ Len(ExtractCalls) = 2
    /\ Len(EnrichCalls) = 2
    /\ Len(CompanyCalls) = 1
    /\ Len(RecordCalls) = 2
    /\ Len(AttributeCalls) = 1
    /\ Len(calls) = 8
    /\ raised # NoError

\* the calls of a call log to an endpoint
LogPostsTo(log, endpoint) ==
    SelectSeq(log, LAMBDA c : c.op = "post" /\ c.endpoint = endpoint)

\* the attribute-create call of process p was rejected as a duplicate
RejectedAsDuplicate(p) ==
    LET A == LogPostsTo(p.calls, "/objects/people/attributes")
    IN  Len(A) >= 1 /\ A[1].outcome.status = 409

\* process p got the 400 that names job_title for its record-create call
GotMissingAttribute(p) ==
    LET R == LogPostsTo(p.calls, "/objects/people/records")
    IN  /\ Len(R) >= 1
        /\ R[1].outcome.status = 400
        /\ R[1].outcome.doc = [message |-> MissingJobTitle]

\* C36 for process p, q being the other process
LosesTheRace(p, q) ==
    RejectedAsDuplicate(p) =>
        /\ GotMissingAttribute(p)
        /\ AttributeCreatedBy(q.calls)
        /\ GotMissingAttribute(q)
        /\ Len(LogPostsTo(p.calls, "/objects/people/records")) = 1
        /\ Len(LogPostsTo(p.calls, "/objects/people/attributes")) = 1
        /\ p.pc = "done"
        /\ p.raised.type = "AttioAPIError"
        /\ p.created_record = EmptyDict

(***************************************************************************)
(* C36: when two create_record calls that overlap both get the 400 naming  *)
(* the same missing attribute, and the CRM accepts the attribute-create    *)
(* call of one and rejects that of the other as a duplicate, the call      *)
(* whose attribute-create call was rejected makes no second record-create  *)
(* call and ends in AttioAPIError although the attribute now exists.       *)
(***************************************************************************)
C36_RejectedHealerFails ==
    /\ LosesTheRace(Running, suspended)
    /\ LosesTheRace(suspended, Running)

C36_Witness ==
    /\ RejectedAsDuplicate(Running)
    /\ pc = "done"
    /\ raised # NoError
    /\ raised.type = "AttioAPIError"
    /\ Len(LogPostsTo(calls, "/objects/people/records")) = 1
    /\ suspended.pc = "done"
    /\ GotMissingAttribute(suspended)
    /\ AttributeCreatedBy(suspended.calls)
    /\ Len(LogPostsTo(suspended.calls, "/objects/people/records")) = 2
    /\ suspended.created_record = [id |-> [record_id |-> "rec_1"]]

====
